---- MODULE Spec2Model ----
(***************************************************************************)
(* Model of the deterministic CV scoring engine: keyword extraction and    *)
(* comparison (utils/keyword_extractor.py), structure analysis, legacy     *)
(* score and suggestions (utils/cv_analyzer.py) and the weighted score     *)
(* (utils/scoring_system.py).                                              *)
(*                                                                         *)
(* Representation.  A Python str is a sequence of one-character strings.   *)
(* A float that the code rounds to d decimals is kept as the integer       *)
(* number of 10^-d units: match_percentage and density_ratio in            *)
(* hundredths, overall_score in tenths.  An unrounded weighted sum is kept *)
(* exactly, in hundredths of a point.  A Python list built from a set      *)
(* (list(set(...))) is ordered by the interpreter's string hashing, which  *)
(* is fixed inside one process and re-drawn per process: hash_seed.        *)
(***************************************************************************)
EXTENDS Integers, Sequences, FiniteSets, TLC

VARIABLES
    cv_keywords,            \* compare_keywords argument (dict from the CV side)
    job_keywords,           \* compare_keywords argument (dict from the job side)
    keyword_comparison,     \* what compare_keywords returned, or NotCalled
    hash_seed,              \* the process's string-hash seed
    input_cv_text,          \* analyze_cv argument
    input_job_description,  \* analyze_cv argument
    flesch_of_cv,           \* what textstat.flesch_reading_ease does for the CV text
    float_tie,              \* where the float sum of this input's weighted scores
                            \* falls when it is exactly between two tenths
    ollama_server,          \* the state of the Ollama server
    analysis_results,       \* what analyze_cv returned; calculate_overall_score argument
    breakdown,              \* what calculate_overall_score returned, or NotCalled
    previous,               \* the results and breakdown of the run before, and its seed
    grade_scores,           \* two scores handed to _get_grade (hundredths)
    grades,                 \* the grades returned for them, or NotCalled
    frame,                  \* the frame of an analyze_cv call that runs step by step
    filtered_tokens,        \* what _tokenize_and_filter(_clean_text(.)) returned
    user_input,             \* get_response argument
    chat_response,          \* what get_response returned, or NotCalled
    help_suggestion,        \* _get_detailed_help argument
    help_response,          \* what _get_detailed_help displayed, or NotCalled
    cv_history,             \* st.session_state.cv_history (the scores of its entries)
    current_cv_score,       \* st.session_state.current_cv_score, or NotCalled when unset
    previous_cv_score,      \* st.session_state.previous_cv_score, or NotCalled when unset
    update_calls,           \* the scores update_history was called with, in call order
    session_state,          \* the other keys of st.session_state that the pages use
    page,                   \* what the last user action made its page show
    score_grades            \* what _get_score_grade returned for grade_scores, or NotCalled

compare_vars == <<cv_keywords, job_keywords, keyword_comparison>>

pipeline_vars == <<input_cv_text, input_job_description, flesch_of_cv, float_tie,
                   ollama_server, previous>>

grade_vars == <<grade_scores, grades>>

chat_vars == <<user_input, chat_response, help_suggestion, help_response>>

history_vars == <<cv_history, current_cv_score, previous_cv_score, update_calls>>

ui_vars == <<session_state, page, score_grades>>

component_vars == <<frame, filtered_tokens, chat_vars, history_vars, ui_vars>>

vars == <<compare_vars, hash_seed, pipeline_vars, analysis_results, breakdown, grade_vars,
          component_vars>>

\* the result of an operation that has not been called, and a variable
\* that is not part of the run
NotCalled == [called |-> FALSE]

\* analyze_cv is not part of the run
PipelineNotRun ==
    /\ input_cv_text = NotCalled
    /\ input_job_description = NotCalled
    /\ flesch_of_cv = NotCalled
    /\ float_tie = NotCalled
    /\ ollama_server = NotCalled
    /\ previous = NotCalled

\* the chat and help features are not part of the run
ChatNotRun ==
    /\ user_input = NotCalled
    /\ chat_response = NotCalled
    /\ help_suggestion = NotCalled
    /\ help_response = NotCalled

\* update_history is not part of the run
HistoryNotRun ==
    /\ cv_history = NotCalled
    /\ current_cv_score = NotCalled
    /\ previous_cv_score = NotCalled
    /\ update_calls = NotCalled

\* the pages of the application are not part of the run
UiNotRun ==
    /\ session_state = NotCalled
    /\ page = NotCalled
    /\ score_grades = NotCalled

\* neither are a stepwise analyze_cv and the normalizer
ComponentsNotRun ==
    /\ frame = NotCalled
    /\ filtered_tokens = NotCalled
    /\ ChatNotRun
    /\ HistoryNotRun
    /\ UiNotRun

\* ------------------------------------------------------------------------
\* Characters and strings
\* ------------------------------------------------------------------------

UpperLetters == <<"A","B","C","D","E","F","G","H","I","J","K","L","M","N","O","P","Q","R","S","T","U","V","W","X","Y","Z">>

LowerLetters == <<"a","b","c","d","e","f","g","h","i","j","k","l","m","n","o","p","q","r","s","t","u","v","w","x","y","z">>

Digits == {"0","1","2","3","4","5","6","7","8","9"}

UpperSet == {UpperLetters[i] : i \in DOMAIN UpperLetters}

LowerSet == {LowerLetters[i] : i \in DOMAIN LowerLetters}

\* the whitespace of str.split() and of the regex class \s
Spaces == {" ", "\n", "\t"}

IsSpace(c) == c \in Spaces

\* the regex class \d
IsDigit(c) == c \in Digits

\* the regex class \w
WordChars == UpperSet \cup LowerSet \cup Digits \cup {"_"}

IsWordChar(c) == c \in WordChars

\* one character of str.lower()
LowerOf == [c \in UpperSet |-> LowerLetters[CHOOSE i \in DOMAIN UpperLetters : UpperLetters[i] = c]]

lower_char(c) == IF c \in UpperSet THEN LowerOf[c] ELSE c

\* the function f on 1..n as a tuple: its elements are computed once
Tuple(f) == SubSeq(f, 1, Len(f))

\* str.lower()
str_lower(s) == Tuple([i \in 1..Len(s) |-> lower_char(s[i])])

\* the character at position i, "" beyond the ends of t
CharAt(t, i) == IF i >= 1 /\ i <= Len(t) THEN t[i] ELSE ""

\* the literal lit stands at position i of t
MatchAt(t, i, lit) ==
    /\ i >= 1
    /\ i + Len(lit) - 1 <= Len(t)
    /\ \A j \in 1..Len(lit) : t[i + j - 1] = lit[j]

\* the literal lit (lower case) stands at position i of t, case ignored
MatchAtCI(t, i, lit) ==
    /\ i >= 1
    /\ i + Len(lit) - 1 <= Len(t)
    /\ \A j \in 1..Len(lit) : lower_char(t[i + j - 1]) = lit[j]

\* Python's "pat in text" on strings
Contains(text, pat) == \E i \in 1..(Len(text) - Len(pat) + 1) : MatchAt(text, i, pat)

\* ------------------------------------------------------------------------
\* Numbers
\* ------------------------------------------------------------------------

\* round(n / d) to the nearest integer, ties to even, for n >= 0 and d > 0:
\* Python's round() on a value that is exactly n / d
round_half_even(n, d) ==
    LET q == n \div d
        r == n % d
    IN  IF 2 * r < d THEN q
        ELSE IF 2 * r > d THEN q + 1
        ELSE IF q % 2 = 0 THEN q ELSE q + 1

\* Python's a / b: raises ZeroDivisionError when b = 0
truediv(a, b) == [raised |-> (b = 0), num |-> a, den |-> IF b = 0 THEN 1 ELSE b]

\* ------------------------------------------------------------------------
\* Order of list(set(...)): decided by the string hashes of the process
\* ------------------------------------------------------------------------

HashSeeds == {1, 2}

CharCode(c) ==
    IF c \in LowerSet THEN CHOOSE i \in DOMAIN LowerLetters : LowerLetters[i] = c
    ELSE IF c \in UpperSet THEN 26 + (CHOOSE i \in DOMAIN UpperLetters : UpperLetters[i] = c)
    ELSE 53

RECURSIVE str_hash(_, _)
str_hash(s, seed) ==
    IF s = <<>> THEN seed
    ELSE (str_hash(Tail(s), seed) * (30 + seed) + CharCode(Head(s))) % 1009

list_of_set(S, seed) ==
    LET hashed == {<<str_hash(e, seed), e>> : e \in S}
        \* elements of one hash stand in some fixed order
        before(a, b) == a[1] < b[1] \/ (a[1] = b[1] /\ a # b /\ a = CHOOSE e \in {a, b} : TRUE)
        placed == {<<Cardinality({o \in hashed : before(o, p)}) + 1, p[2]>> : p \in hashed}
    IN  Tuple([k \in 1..Cardinality(S) |-> (CHOOSE p \in placed : p[1] = k)[2]])

\* set(seq)
set_of_list(q) == {q[i] : i \in DOMAIN q}

\* ------------------------------------------------------------------------
\* KeywordExtractor.compare_keywords
\* ------------------------------------------------------------------------

\* _calculate_keyword_density: ratio in hundredths; `raised` when the
\* division is evaluated with a zero divisor
_calculate_keyword_density(cvk, jobk) ==
    LET cv_total == Len(cvk.all_keywords)
        job_total == Len(jobk.all_keywords)
        q == IF job_total > 0 THEN truediv(cv_total, job_total) ELSE truediv(0, 1)
    IN  [cv_keyword_count |-> cv_total,
         job_keyword_count |-> job_total,
         density_ratio |-> round_half_even(q.num * 100, q.den),
         raised |-> q.raised]

\* mutant: the zero guard dropped
match_percentage_unguarded(matched_count, total_important_keywords) ==
    truediv(matched_count * 100, total_important_keywords)

\* mutant: floor division (//) in place of true division
match_percentage_floordiv(matched_count, total_important_keywords) ==
    IF total_important_keywords > 0
    THEN truediv((matched_count \div total_important_keywords) * 100, 1)
    ELSE truediv(0, 1)

\* (matched_count / total_important_keywords * 100) if total > 0 else 0,
\* before rounding
match_percentage_of(matched_count, total_important_keywords) ==
    IF total_important_keywords > 0
    THEN truediv(matched_count * 100, total_important_keywords)
    ELSE truediv(0, 1)

\* mutant: the operands of the set difference swapped
missing_of_swapped(job_set, cv_set) == cv_set \ job_set

\* job_all - cv_all
missing_of(job_set, cv_set) == job_set \ cv_set

compare_keywords(cvk, jobk, seed) ==
    LET cv_all == {str_lower(kw) : kw \in set_of_list(cvk.all_keywords)}
        job_all == {str_lower(kw) : kw \in set_of_list(jobk.all_keywords)}
        cv_tech == {str_lower(kw) : kw \in set_of_list(cvk.technical_skills)}
        job_tech == {str_lower(kw) : kw \in set_of_list(jobk.technical_skills)}
        matched_keywords == list_of_set(cv_all \cap job_all, seed)
        missing_keywords == list_of_set(missing_of(job_all, cv_all), seed)
        matched_technical == list_of_set(cv_tech \cap job_tech, seed)
        missing_technical == list_of_set(missing_of(job_tech, cv_tech), seed)
        pct == match_percentage_of(Len(matched_keywords), Cardinality(job_all))
        density == _calculate_keyword_density(cvk, jobk)
    IN  [called |-> TRUE,
         raised |-> (pct.raised \/ density.raised),
         matched_keywords |-> matched_keywords,
         missing_keywords |-> missing_keywords,
         matched_technical |-> matched_technical,
         missing_technical |-> missing_technical,
         match_percentage |-> round_half_even(pct.num * 100, pct.den),
         keyword_density |-> density]

\* ------------------------------------------------------------------------
\* Specification SpecCompare: compare_keywords on bounded keyword dicts
\* ------------------------------------------------------------------------

MaxKw == 3

\* keywords as the caller may pass them: any case
KwUniverse == {<<"s","q","l">>, <<"S","Q","L">>, <<"a","w","s">>, <<"g","i","t">>}

SeqsUpTo(U, n) == UNION {[1..k -> U] : k \in 0..n}

\* all_keywords lists on the CV side
CvKeywordLists ==
    {<<>>,
     <<<<"s","q","l">>>>,
     <<<<"S","Q","L">>>>,
     <<<<"g","i","t">>>>,
     <<<<"S","Q","L">>, <<"s","q","l">>>>,
     <<<<"a","w","s">>, <<"g","i","t">>>>,
     <<<<"a","w","s">>, <<"s","q","l">>>>,
     <<<<"g","i","t">>, <<"s","q","l">>, <<"a","w","s">>>>}

CvTechLists == {<<>>, <<<<"A","W","S">>>>}

JobTechLists == {<<>>, <<<<"a","w","s">>>>, <<<<"a","w","s">>, <<"s","q","l">>>>}

InitCompare ==
    /\ ComponentsNotRun
    /\ \E a \in CvKeywordLists, t \in CvTechLists :
           cv_keywords = [all_keywords |-> a, technical_skills |-> t]
    /\ \E a \in SeqsUpTo(KwUniverse, MaxKw), t \in JobTechLists :
           job_keywords = [all_keywords |-> a, technical_skills |-> t]
    /\ keyword_comparison = NotCalled
    /\ hash_seed \in HashSeeds
    /\ analysis_results = NotCalled
    /\ breakdown = NotCalled
    /\ grade_scores = NotCalled
    /\ grades = NotCalled
    /\ PipelineNotRun

CompareKeywords ==
    /\ keyword_comparison' = compare_keywords(cv_keywords, job_keywords, hash_seed)
    /\ UNCHANGED <<cv_keywords, job_keywords, hash_seed, analysis_results, breakdown,
                   pipeline_vars, grade_vars, component_vars>>

NextCompare == CompareKeywords

SpecCompare == InitCompare /\ [][NextCompare]_vars

\* ------------------------------------------------------------------------
\* Claims on compare_keywords (under SpecCompare)
\* ------------------------------------------------------------------------

LoweredSet(q) == {str_lower(q[i]) : i \in DOMAIN q}

JobAll == LoweredSet(job_keywords.all_keywords)

CvAll == LoweredSet(cv_keywords.all_keywords)

Matched == set_of_list(keyword_comparison.matched_keywords)

Missing == set_of_list(keyword_comparison.missing_keywords)

\* C1: matched_keywords and missing_keywords partition the lowercased job
\* all_keywords set: their union is job_all, they are disjoint, and neither
\* holds a keyword that is only on the CV side.
C1_Partition ==
    keyword_comparison.called =>
        /\ Matched \cup Missing = JobAll
        /\ Matched \cap Missing = {}
        /\ \A k \in CvAll \ JobAll : k \notin Matched /\ k \notin Missing

C1_Witness ==
    /\ keyword_comparison.called
    /\ Matched # {}
    /\ Missing # {}
    /\ CvAll \ JobAll # {}

\* C2 as stated: match_percentage is in [0,100] and equals
\* |matched| / |job_all| * 100 exactly, and is 0 (with ratio 0 and no
\* division error) when the job keyword set is empty.
C2_Original ==
    keyword_comparison.called =>
        /\ ~keyword_comparison.raised
        /\ keyword_comparison.match_percentage \in 0..10000
        /\ keyword_comparison.match_percentage * Cardinality(JobAll)
               = Cardinality(Matched) * 10000
        /\ JobAll = {} =>
               /\ keyword_comparison.match_percentage = 0
               /\ keyword_comparison.keyword_density.density_ratio = 0

\* C2 amended: match_percentage is in [0,100] and is |matched| / |job_all| * 100
\* rounded to 2 decimals (within 0.005 of the exact quotient); with an empty
\* job keyword set it is 0, the density ratio is 0 and no division is
\* evaluated.
C2_RoundedPercentage ==
    keyword_comparison.called =>
        LET n == Cardinality(JobAll)
            d == keyword_comparison.match_percentage * n - Cardinality(Matched) * 10000
        IN  /\ ~keyword_comparison.raised
            /\ keyword_comparison.match_percentage \in 0..10000
            /\ 2 * d <= n /\ -2 * d <= n
            /\ n = 0 =>
                   /\ keyword_comparison.match_percentage = 0
                   /\ keyword_comparison.keyword_density.density_ratio = 0

\* the empty job description's keyword dict has been compared
C2_WitnessEmptyJob ==
    /\ keyword_comparison.called
    /\ job_keywords.all_keywords = <<>>
    /\ cv_keywords.all_keywords # <<>>
    /\ keyword_comparison.match_percentage = 0

\* C3 as stated: match_percentage is 0 exactly when the job keyword set is
\* empty.
C3_Original ==
    keyword_comparison.called =>
        (keyword_comparison.match_percentage = 0 <=> JobAll = {})

\* C3 amended: match_percentage is 0 exactly when no job keyword is matched
\* by the CV, which includes the empty job keyword set; it is non-zero as
\* soon as one job keyword is matched.
C3_ZeroIffNoMatch ==
    keyword_comparison.called =>
        /\ keyword_comparison.match_percentage = 0 <=> Matched = {}
        /\ JobAll = {} => keyword_comparison.match_percentage = 0

\* a non-empty job keyword set of which the CV matches nothing, and one of
\* which it matches a part
C3_Witness ==
    /\ keyword_comparison.called
    /\ Cardinality(JobAll) = MaxKw
    /\ Cardinality(Matched) = 1
    /\ keyword_comparison.match_percentage > 0

C3_WitnessNoMatch ==
    /\ keyword_comparison.called
    /\ JobAll # {}
    /\ Matched = {}
    /\ keyword_comparison.match_percentage = 0

\* ------------------------------------------------------------------------
\* ScoringSystem (utils/scoring_system.py)
\* ------------------------------------------------------------------------

\* the keys of `scores`, in the dict's insertion order
Components == <<"keyword_match", "structure", "content_quality", "technical_skills", "formatting">>

\* self.weights, in hundredths
weights ==
    [keyword_match |-> 35, structure |-> 25, content_quality |-> 20,
     technical_skills |-> 15, formatting |-> 5]

Min(a, b) == IF a <= b THEN a ELSE b

Max(a, b) == IF a >= b THEN a ELSE b

\* keyword_match_percentage is in hundredths of a percent
_calculate_keyword_score(analysis) ==
    LET match_percentage == analysis.keyword_match_percentage
    IN  IF match_percentage >= 8000 THEN 95
        ELSE IF match_percentage >= 6000 THEN 85
        ELSE IF match_percentage >= 4000 THEN 70
        ELSE IF match_percentage >= 2000 THEN 50
        ELSE 30

_calculate_structure_score(analysis) ==
    LET structure == analysis.structure_analysis
        section_count == structure.section_count
        score == (IF structure.has_contact_info THEN 10 ELSE 0)
               + (IF structure.has_summary THEN 10 ELSE 0)
               + (IF structure.has_experience THEN 15 ELSE 0)
               + (IF structure.has_education THEN 5 ELSE 0)
               + (IF structure.has_skills THEN 10 ELSE 0)
               + (IF structure.uses_bullet_points THEN 10 ELSE 0)
               + (IF structure.has_quantified_achievements THEN 10 ELSE 0)
               + (IF structure.appropriate_length THEN 15 ELSE 0)
               + (IF section_count >= 5 THEN 15
                  ELSE IF section_count >= 3 THEN 10
                  ELSE IF section_count >= 2 THEN 5
                  ELSE 0)
    IN  Min(score, 100)

_calculate_content_score(analysis) ==
    LET readability == analysis.readability_score
        word_count == analysis.word_count
        penalty == Min(Len(analysis.enhancement_opportunities) * 3, 15)
        score == 50
               + (IF readability >= 60 THEN 20 ELSE IF readability >= 40 THEN 10 ELSE 0)
               + (IF 300 <= word_count /\ word_count <= 800 THEN 15
                  ELSE IF 200 <= word_count /\ word_count <= 1000 THEN 10
                  ELSE 5)
               - penalty
    IN  Max(Min(score, 100), 0)

\* match_ratio >= 0.8 etc. compared exactly: 10 * matched >= 8 * total
_calculate_technical_score(analysis) ==
    LET matched_tech == Len(analysis.technical_skills_match)
        missing_tech == Len(analysis.missing_technical_skills)
        total == matched_tech + missing_tech
    IN  IF total = 0 THEN 70
        ELSE IF 10 * matched_tech >= 8 * total THEN 95
        ELSE IF 10 * matched_tech >= 6 * total THEN 85
        ELSE IF 10 * matched_tech >= 4 * total THEN 70
        ELSE IF 10 * matched_tech >= 2 * total THEN 55
        ELSE 35

_calculate_formatting_score(analysis) ==
    LET formatting_issues == analysis.structure_analysis.formatting_issues
        score == 100 - Len(formatting_issues) * 15
    IN  Max(Min(score, 100), 0)

\* mutant: the results of two neighbouring bands exchanged
_get_grade_swapped(score) ==
    IF score >= 9000 THEN "A+"
    ELSE IF score >= 8500 THEN "A-"
    ELSE IF score >= 8000 THEN "A"
    ELSE IF score >= 7500 THEN "B+"
    ELSE IF score >= 7000 THEN "B"
    ELSE IF score >= 6500 THEN "B-"
    ELSE IF score >= 6000 THEN "C+"
    ELSE IF score >= 5500 THEN "C"
    ELSE IF score >= 5000 THEN "C-"
    ELSE "D"

\* score is in hundredths of a point
_get_grade(score) ==
    IF score >= 9000 THEN "A+"
    ELSE IF score >= 8500 THEN "A"
    ELSE IF score >= 8000 THEN "A-"
    ELSE IF score >= 7500 THEN "B+"
    ELSE IF score >= 7000 THEN "B"
    ELSE IF score >= 6500 THEN "B-"
    ELSE IF score >= 6000 THEN "C+"
    ELSE IF score >= 5500 THEN "C"
    ELSE IF score >= 5000 THEN "C-"
    ELSE "D"

\* score is in hundredths of a point
_calculate_percentile(score) ==
    IF score >= 8500 THEN 95
    ELSE IF score >= 7500 THEN 80
    ELSE IF score >= 6500 THEN 60
    ELSE IF score >= 5500 THEN 40
    ELSE 20

strength_messages ==
    [keyword_match |-> "Excellent keyword optimization for ATS systems",
     structure |-> "Well-organized CV with all essential sections",
     content_quality |-> "High-quality, readable content with good flow",
     technical_skills |-> "Strong technical skills alignment with job requirements",
     formatting |-> "ATS-friendly formatting and structure"]

\* f'Relatively strong {best_component.replace("_", " ")}'
relative_strength ==
    [keyword_match |-> "Relatively strong keyword match",
     structure |-> "Relatively strong structure",
     content_quality |-> "Relatively strong content quality",
     technical_skills |-> "Relatively strong technical skills",
     formatting |-> "Relatively strong formatting"]

weakness_messages ==
    [keyword_match |-> "Low keyword matching - missing important job-related terms",
     structure |-> "CV structure needs improvement - missing key sections",
     content_quality |-> "Content quality could be enhanced with better writing",
     technical_skills |-> "Technical skills section needs strengthening",
     formatting |-> "Formatting issues may cause ATS parsing problems"]

step_recommendations ==
    [keyword_match |->
        <<"Review job description and identify missing keywords",
          "Naturally incorporate relevant keywords throughout your CV",
          "Focus on industry-specific terminology and skills">>,
     structure |->
        <<"Add missing essential sections (contact, summary, experience, education)",
          "Reorganize content with clear section headers",
          "Use consistent formatting throughout">>,
     content_quality |->
        <<"Quantify achievements with specific numbers and metrics",
          "Use strong action verbs to start bullet points",
          "Improve clarity and conciseness of descriptions">>,
     technical_skills |->
        <<"Add relevant technical skills mentioned in job posting",
          "Create dedicated skills section if missing",
          "Provide context for how you used technical skills">>,
     formatting |->
        <<"Use simple, ATS-friendly formatting",
          "Avoid tables, graphics, and unusual fonts",
          "Ensure consistent spacing and alignment">>]

\* seq[:n]
Prefix(q, n) == SubSeq(q, 1, Min(n, Len(q)))

\* the concatenation of the sequences of a sequence
RECURSIVE Flatten(_)
Flatten(qq) == IF qq = <<>> THEN <<>> ELSE Head(qq) \o Flatten(Tail(qq))

_identify_strengths(scores) ==
    LET strong == SelectSeq(Components, LAMBDA c : scores[c] >= 80)
        \* max(scores.keys(), key=...): the first key with the highest score
        best_component ==
            Components[CHOOSE i \in DOMAIN Components :
                /\ \A j \in DOMAIN Components : scores[Components[j]] <= scores[Components[i]]
                /\ \A j \in 1..(i - 1) : scores[Components[j]] < scores[Components[i]]]
    IN  IF strong # <<>>
        THEN [i \in 1..Len(strong) |-> strength_messages[strong[i]]]
        ELSE <<relative_strength[best_component]>>

\* mutant: a score of 60 counts as weak
_identify_weaknesses_at_60(scores) ==
    LET weak == SelectSeq(Components, LAMBDA c : scores[c] <= 60)
    IN  [i \in 1..Len(weak) |-> weakness_messages[weak[i]]]

_identify_weaknesses(scores) ==
    LET weak == SelectSeq(Components, LAMBDA c : scores[c] < 60)
    IN  [i \in 1..Len(weak) |-> weakness_messages[weak[i]]]

\* sorted(scores.items(), key=lambda x: x[1]): stable, ascending by score
sorted_components(scores) ==
    LET rank(i) == Cardinality({j \in DOMAIN Components :
                        \/ scores[Components[j]] < scores[Components[i]]
                        \/ scores[Components[j]] = scores[Components[i]] /\ j < i}) + 1
    IN  [k \in 1..Len(Components) |->
            Components[CHOOSE i \in DOMAIN Components : rank(i) = k]]

\* mutant: the list is returned without the cut to 5
_generate_next_steps_uncut(scores) ==
    LET top3 == Prefix(sorted_components(scores), 3)
        per_component == [k \in 1..Len(top3) |->
            IF scores[top3[k]] < 80 THEN Prefix(step_recommendations[top3[k]], 2) ELSE <<>>]
    IN  Flatten(per_component)

_generate_next_steps(scores) ==
    LET top3 == Prefix(sorted_components(scores), 3)
        per_component == [k \in 1..Len(top3) |->
            IF scores[top3[k]] < 80 THEN Prefix(step_recommendations[top3[k]], 2) ELSE <<>>]
    IN  Prefix(Flatten(per_component), 5)

\* the sides a float sum can fall to when the exact sum is between two tenths
FloatTies == {"down", "up"}

\* round(overall_score, 1), in tenths, of a sum that is exactly h hundredths.
\* The float sum carries a representation error of a few ulps, so exactly
\* between two tenths round() goes the way the error of that sum points:
\* `tie`.
round_tenths(h, tie) ==
    IF h % 10 = 5 THEN (IF tie = "up" THEN h \div 10 + 1 ELSE h \div 10)
    ELSE (h + 5) \div 10

\* mutant: a component left out of the sum
weighted_sum_without_formatting(scores) ==
    scores.keyword_match * weights.keyword_match
    + scores.structure * weights.structure
    + scores.content_quality * weights.content_quality
    + scores.technical_skills * weights.technical_skills

\* sum(scores[c] * self.weights[c] for c in scores.keys()), in hundredths
weighted_sum(scores) ==
    scores.keyword_match * weights.keyword_match
    + scores.structure * weights.structure
    + scores.content_quality * weights.content_quality
    + scores.technical_skills * weights.technical_skills
    + scores.formatting * weights.formatting

component_scores_of(analysis) ==
    [keyword_match |-> _calculate_keyword_score(analysis),
     structure |-> _calculate_structure_score(analysis),
     content_quality |-> _calculate_content_score(analysis),
     technical_skills |-> _calculate_technical_score(analysis),
     formatting |-> _calculate_formatting_score(analysis)]

calculate_overall_score(analysis, tie) ==
    LET scores == component_scores_of(analysis)
        overall_score == weighted_sum(scores)
    IN  [called |-> TRUE,
         overall_score |-> round_tenths(overall_score, tie),
         component_scores |-> scores,
         grade |-> _get_grade(overall_score),
         percentile |-> _calculate_percentile(overall_score),
         improvement_potential |-> 10000 - overall_score,
         strengths |-> _identify_strengths(scores),
         weaknesses |-> _identify_weaknesses(scores),
         next_steps |-> _generate_next_steps(scores)]

\* ------------------------------------------------------------------------
\* Specification SpecScore: calculate_overall_score on bounded records
\* ------------------------------------------------------------------------

MaxOpportunities == 5

MaxTechCount == 2

MaxFormattingIssues == 3

ListOfLen(n, x) == [i \in 1..n |-> x]

\* structure_analysis dicts: the flags all off, all on, and mixed
StructureProfiles ==
    {[has_contact_info |-> a, has_summary |-> b, has_experience |-> a,
      has_education |-> b, has_skills |-> c, uses_bullet_points |-> c,
      has_quantified_achievements |-> a, appropriate_length |-> b,
      section_count |-> n, formatting_issues |-> ListOfLen(f, "issue")] :
        a \in BOOLEAN, b \in BOOLEAN, c \in BOOLEAN, n \in {0, 2, 3, 5},
        f \in {0, MaxFormattingIssues}}

AnalysisRecords ==
    {[keyword_match_percentage |-> p,
      structure_analysis |-> st,
      readability_score |-> r,
      word_count |-> w,
      enhancement_opportunities |-> ListOfLen(o, "opportunity"),
      technical_skills_match |-> ListOfLen(tm, "skill"),
      missing_technical_skills |-> ListOfLen(tx, "skill")] :
        p \in {0, 1999, 2000, 4000, 6000, 8000},
        st \in StructureProfiles,
        r \in {39, 40, 60},
        w \in {0, 200, 300},
        o \in {0, 3, MaxOpportunities},
        tm \in 0..MaxTechCount, tx \in {0, MaxTechCount}}

InitScore ==
    /\ ComponentsNotRun
    /\ analysis_results \in AnalysisRecords
    /\ breakdown = NotCalled
    /\ cv_keywords = NotCalled
    /\ job_keywords = NotCalled
    /\ keyword_comparison = NotCalled
    /\ hash_seed = 1
    /\ grade_scores = NotCalled
    /\ grades = NotCalled
    /\ PipelineNotRun

CalculateOverallScore ==
    /\ \E tie \in FloatTies : breakdown' = calculate_overall_score(analysis_results, tie)
    /\ UNCHANGED <<analysis_results, compare_vars, hash_seed, pipeline_vars, grade_vars, component_vars>>

NextScore == CalculateOverallScore

SpecScore == InitScore /\ [][NextScore]_vars

\* ------------------------------------------------------------------------
\* Claims on calculate_overall_score (under SpecScore)
\* ------------------------------------------------------------------------

\* C4: the five component scores are each in [0,100]; overall_score is in
\* [0,100] and is the weighted sum with weights 0.35, 0.25, 0.20, 0.15,
\* 0.05 (which sum to 1.0) rounded to 1 decimal: it is within 0.05 of the
\* sum.  overall_score is in tenths, the sum in hundredths.
C4_WeightedSum ==
    breakdown.called =>
        LET cs == breakdown.component_scores
            sum == 35 * cs.keyword_match + 25 * cs.structure + 20 * cs.content_quality
                   + 15 * cs.technical_skills + 5 * cs.formatting
            d == 10 * breakdown.overall_score - sum
        IN  /\ DOMAIN cs = {Components[i] : i \in DOMAIN Components}
            /\ \A c \in DOMAIN cs : cs[c] \in 0..100
            /\ breakdown.overall_score \in 0..1000
            /\ d <= 5 /\ -d <= 5
            /\ weights.keyword_match + weights.structure + weights.content_quality
                   + weights.technical_skills + weights.formatting = 100

\* a breakdown whose weighted sum needed rounding, with the components
\* taking different values
C4_Witness ==
    /\ breakdown.called
    /\ breakdown.improvement_potential % 10 # 0
    /\ breakdown.component_scores.keyword_match = 95
    /\ breakdown.component_scores.structure = 100
    /\ breakdown.component_scores.formatting < 100
    /\ breakdown.overall_score > 800

\* ------------------------------------------------------------------------
\* Specification SpecGrade: _get_grade on pairs of scores around the bands
\* ------------------------------------------------------------------------

\* scores in hundredths: each band edge, the values next to it, 0 and 100
GradeProbes ==
    {0, 2500, 10000} \cup UNION {{e - 1, e, e + 1, e + 250} : e \in {5000 + 500 * k : k \in 0..8}}

InitGrade ==
    /\ ComponentsNotRun
    /\ \E a \in GradeProbes, b \in GradeProbes : a <= b /\ grade_scores = <<a, b>>
    /\ grades = NotCalled
    /\ cv_keywords = NotCalled
    /\ job_keywords = NotCalled
    /\ keyword_comparison = NotCalled
    /\ hash_seed = 1
    /\ analysis_results = NotCalled
    /\ breakdown = NotCalled
    /\ PipelineNotRun

GetGrade ==
    /\ grades' = [called |-> TRUE,
                  a |-> _get_grade(grade_scores[1]),
                  b |-> _get_grade(grade_scores[2])]
    /\ UNCHANGED <<grade_scores, compare_vars, hash_seed, pipeline_vars, analysis_results,
                   breakdown, component_vars>>

\* AnalyticsDashboard._get_score_grade; score is in hundredths of a point
_get_score_grade(score) ==
    IF score >= 9000 THEN "A+"
    ELSE IF score >= 8500 THEN "A"
    ELSE IF score >= 8000 THEN "A-"
    ELSE IF score >= 7500 THEN "B+"
    ELSE IF score >= 7000 THEN "B"
    ELSE IF score >= 6500 THEN "B-"
    ELSE IF score >= 6000 THEN "C+"
    ELSE "C"

\* the dashboard shows the grade of the same two scores
GetScoreGrade ==
    /\ score_grades' = [called |-> TRUE,
                        a |-> _get_score_grade(grade_scores[1]),
                        b |-> _get_score_grade(grade_scores[2])]
    /\ UNCHANGED <<grade_vars, compare_vars, hash_seed, pipeline_vars, analysis_results,
                   breakdown, frame, filtered_tokens, chat_vars, history_vars, session_state,
                   page>>

NextGrade == GetGrade \/ GetScoreGrade

SpecGrade == InitGrade /\ [][NextGrade]_vars

\* D < C- < C < C+ < B- < B < B+ < A- < A < A+
GradeOrder == <<"D", "C-", "C", "C+", "B-", "B", "B+", "A-", "A", "A+">>

GradeRank(g) == CHOOSE i \in DOMAIN GradeOrder : GradeOrder[i] = g

\* the lowest score of each letter, in hundredths: >=90 A+, >=85 A, >=80 A-,
\* >=75 B+, >=70 B, >=65 B-, >=60 C+, >=55 C, >=50 C-, else D
BandFloor ==
    [g \in {GradeOrder[i] : i \in DOMAIN GradeOrder} |->
        IF g = "D" THEN 0 ELSE 5000 + 500 * (GradeRank(g) - 2)]

\* the letter of the highest band whose floor the score reaches
BandOf(score) ==
    CHOOSE g \in DOMAIN BandFloor :
        /\ BandFloor[g] <= score
        /\ \A h \in DOMAIN BandFloor : BandFloor[h] <= score => BandFloor[h] <= BandFloor[g]

\* C6: _get_grade is monotone (for a <= b the grade of a is never a strictly
\* higher letter than the grade of b in D < C- < ... < A+), and each score
\* gets the letter of its band: >=90 A+, >=85 A, >=80 A-, >=75 B+, >=70 B,
\* >=65 B-, >=60 C+, >=55 C, >=50 C-, else D.
C6_GradeMonotone ==
    grades.called =>
        /\ grade_scores[1] <= grade_scores[2] => GradeRank(grades.a) <= GradeRank(grades.b)
        /\ grades.a = BandOf(grade_scores[1])
        /\ grades.b = BandOf(grade_scores[2])

\* two scores on either side of a band edge have been graded
C6_Witness ==
    /\ grades.called
    /\ grade_scores = <<8499, 8500>>
    /\ grades.a = "A-"
    /\ grades.b = "A"

\* ------------------------------------------------------------------------
\* KeywordExtractor: text normalisation and keyword extraction
\* ------------------------------------------------------------------------

Indices(t) == [i \in 1..Len(t) |-> i]

\* the positions where a whitespace-separated word of t starts
IsWordStart(t, i) == ~IsSpace(t[i]) /\ (i = 1 \/ IsSpace(t[i - 1]))

\* str.split(): the whitespace-separated words, in order
split(t) ==
    LET starts == SelectSeq(Indices(t), LAMBDA i : IsWordStart(t, i))
        ends == SelectSeq(Indices(t), LAMBDA i :
                    ~IsSpace(t[i]) /\ (i = Len(t) \/ IsSpace(t[i + 1])))
    IN  Tuple([k \in 1..Len(starts) |-> SubSeq(t, starts[k], ends[k])])

\* len(text.split())
word_count_of(t) == Cardinality({i \in 1..Len(t) : IsWordStart(t, i)})

\* re.sub(r'[^\w\s]', ' ', text.lower()); re.sub(r'\s+', ' ', text); strip()
_clean_text(text) ==
    LET lowered == str_lower(text)
        blanked == Tuple([i \in 1..Len(text) |->
                       IF IsWordChar(lowered[i]) \/ IsSpace(lowered[i]) THEN lowered[i] ELSE " "])
        \* a run of whitespace becomes one space: keep its first character
        firsts == SelectSeq(Indices(text), LAMBDA i :
                      ~IsSpace(blanked[i]) \/ i = 1 \/ ~IsSpace(blanked[i - 1]))
        collapsed == Tuple([k \in 1..Len(firsts) |->
                         IF IsSpace(blanked[firsts[k]]) THEN " " ELSE blanked[firsts[k]]])
        n == Len(collapsed)
        from == IF n > 0 /\ collapsed[1] = " " THEN 2 ELSE 1
        to == IF n > 0 /\ collapsed[n] = " " THEN n - 1 ELSE n
    IN  SubSeq(collapsed, from, to)

\* nltk's word_tokenize on cleaned text (word characters and single spaces):
\* the space-separated words
word_tokenize(text) == split(text)

\* stopwords.words('english') of NLTK, the entries without an apostrophe (the
\* cleaned text holds none)
stop_words ==
    {<<"i">>, <<"m","e">>, <<"m","y">>, <<"m","y","s","e","l","f">>, <<"w","e">>, <<"o","u","r">>,
     <<"o","u","r","s">>, <<"o","u","r","s","e","l","v","e","s">>, <<"y","o","u">>, <<"y","o","u","r">>,
     <<"y","o","u","r","s">>, <<"y","o","u","r","s","e","l","f">>,
     <<"y","o","u","r","s","e","l","v","e","s">>, <<"h","e">>, <<"h","i","m">>, <<"h","i","s">>,
     <<"h","i","m","s","e","l","f">>, <<"s","h","e">>, <<"h","e","r">>, <<"h","e","r","s">>,
     <<"h","e","r","s","e","l","f">>, <<"i","t">>, <<"i","t","s">>, <<"i","t","s","e","l","f">>,
     <<"t","h","e","y">>, <<"t","h","e","m">>, <<"t","h","e","i","r">>, <<"t","h","e","i","r","s">>,
     <<"t","h","e","m","s","e","l","v","e","s">>, <<"w","h","a","t">>, <<"w","h","i","c","h">>,
     <<"w","h","o">>, <<"w","h","o","m">>, <<"t","h","i","s">>, <<"t","h","a","t">>,
     <<"t","h","e","s","e">>, <<"t","h","o","s","e">>, <<"a","m">>, <<"i","s">>, <<"a","r","e">>,
     <<"w","a","s">>, <<"w","e","r","e">>, <<"b","e">>, <<"b","e","e","n">>, <<"b","e","i","n","g">>,
     <<"h","a","v","e">>, <<"h","a","s">>, <<"h","a","d">>, <<"h","a","v","i","n","g">>, <<"d","o">>,
     <<"d","o","e","s">>, <<"d","i","d">>, <<"d","o","i","n","g">>, <<"a">>, <<"a","n">>,
     <<"t","h","e">>, <<"a","n","d">>, <<"b","u","t">>, <<"i","f">>, <<"o","r">>,
     <<"b","e","c","a","u","s","e">>, <<"a","s">>, <<"u","n","t","i","l">>, <<"w","h","i","l","e">>,
     <<"o","f">>, <<"a","t">>, <<"b","y">>, <<"f","o","r">>, <<"w","i","t","h">>,
     <<"a","b","o","u","t">>, <<"a","g","a","i","n","s","t">>, <<"b","e","t","w","e","e","n">>,
     <<"i","n","t","o">>, <<"t","h","r","o","u","g","h">>, <<"d","u","r","i","n","g">>,
     <<"b","e","f","o","r","e">>, <<"a","f","t","e","r">>, <<"a","b","o","v","e">>,
     <<"b","e","l","o","w">>, <<"t","o">>, <<"f","r","o","m">>, <<"u","p">>, <<"d","o","w","n">>,
     <<"i","n">>, <<"o","u","t">>, <<"o","n">>, <<"o","f","f">>, <<"o","v","e","r">>,
     <<"u","n","d","e","r">>, <<"a","g","a","i","n">>, <<"f","u","r","t","h","e","r">>,
     <<"t","h","e","n">>, <<"o","n","c","e">>, <<"h","e","r","e">>, <<"t","h","e","r","e">>,
     <<"w","h","e","n">>, <<"w","h","e","r","e">>, <<"w","h","y">>, <<"h","o","w">>, <<"a","l","l">>,
     <<"a","n","y">>, <<"b","o","t","h">>, <<"e","a","c","h">>, <<"f","e","w">>, <<"m","o","r","e">>,
     <<"m","o","s","t">>, <<"o","t","h","e","r">>, <<"s","o","m","e">>, <<"s","u","c","h">>,
     <<"n","o">>, <<"n","o","r">>, <<"n","o","t">>, <<"o","n","l","y">>, <<"o","w","n">>,
     <<"s","a","m","e">>, <<"s","o">>, <<"t","h","a","n">>, <<"t","o","o">>, <<"v","e","r","y">>,
     <<"s">>, <<"t">>, <<"c","a","n">>, <<"w","i","l","l">>, <<"j","u","s","t">>, <<"d","o","n">>,
     <<"s","h","o","u","l","d">>, <<"n","o","w">>, <<"d">>, <<"l","l">>, <<"m">>, <<"o">>, <<"r","e">>,
     <<"v","e">>, <<"y">>, <<"a","i","n">>, <<"a","r","e","n">>, <<"c","o","u","l","d","n">>,
     <<"d","i","d","n">>, <<"d","o","e","s","n">>, <<"h","a","d","n">>, <<"h","a","s","n">>,
     <<"h","a","v","e","n">>, <<"i","s","n">>, <<"m","a">>, <<"m","i","g","h","t","n">>,
     <<"m","u","s","t","n">>, <<"n","e","e","d","n">>, <<"s","h","a","n">>,
     <<"s","h","o","u","l","d","n">>, <<"w","a","s","n">>, <<"w","e","r","e","n">>, <<"w","o","n">>,
     <<"w","o","u","l","d","n">>}

_tokenize_and_filter(text) ==
    SelectSeq(word_tokenize(text),
              LAMBDA token :
                  /\ token \notin stop_words
                  /\ Len(token) > 2
                  /\ ~(\A i \in 1..Len(token) : IsDigit(token[i])))

\* mutant: the distinct tokens in the order of first occurrence, the
\* frequencies ignored
_get_top_keywords_first_seen(tokens, top_n) ==
    LET first_at == SelectSeq(Indices(tokens), LAMBDA k :
                        \A j \in 1..(k - 1) : tokens[j] # tokens[k])
    IN  Prefix([k \in 1..Len(first_at) |-> tokens[first_at[k]]], top_n)

\* Counter(tokens).most_common(top_n): the distinct tokens by descending
\* count, equal counts in the order of first occurrence
_get_top_keywords(tokens, top_n) ==
    LET first_at == SelectSeq(Indices(tokens), LAMBDA k :
                        \A j \in 1..(k - 1) : tokens[j] # tokens[k])
        count == Tuple([k \in 1..Len(first_at) |->
                     Cardinality({j \in 1..Len(tokens) : tokens[j] = tokens[first_at[k]]})])
        rank == Tuple([k \in 1..Len(first_at) |->
                    Cardinality({j \in 1..Len(first_at) :
                        \/ count[j] > count[k]
                        \/ count[j] = count[k] /\ j < k}) + 1])
        ordered == [r \in 1..Len(first_at) |->
                       tokens[first_at[CHOOSE k \in 1..Len(first_at) : rank[k] = r]]]
    IN  Prefix(ordered, top_n)

\* self.technical_skills: the skills of every category, in the order the
\* categories and their lists are written (270 entries)
technical_skills ==
    <<<<"p","y","t","h","o","n">>, <<"j","a","v","a">>, <<"j","a","v","a","s","c","r","i","p","t">>,
     <<"t","y","p","e","s","c","r","i","p","t">>, <<"c","+","+">>, <<"c","#">>, <<"p","h","p">>,
     <<"r","u","b","y">>, <<"g","o">>, <<"r","u","s","t">>, <<"s","w","i","f","t">>,
     <<"k","o","t","l","i","n">>, <<"s","c","a","l","a">>, <<"p","e","r","l">>, <<"r">>,
     <<"m","a","t","l","a","b">>, <<"j","u","l","i","a">>, <<"d","a","r","t">>,
     <<"e","l","i","x","i","r">>, <<"h","a","s","k","e","l","l">>, <<"h","t","m","l">>, <<"c","s","s">>,
     <<"s","a","s","s">>, <<"l","e","s","s">>, <<"r","e","a","c","t">>, <<"v","u","e">>,
     <<"a","n","g","u","l","a","r">>, <<"s","v","e","l","t","e">>, <<"n","e","x","t",".","j","s">>,
     <<"n","u","x","t",".","j","s">>, <<"n","o","d","e",".","j","s">>, <<"e","x","p","r","e","s","s">>,
     <<"d","j","a","n","g","o">>, <<"f","l","a","s","k">>, <<"f","a","s","t","a","p","i">>,
     <<"s","p","r","i","n","g">>, <<"a","s","p",".","n","e","t">>, <<"l","a","r","a","v","e","l">>,
     <<"r","a","i","l","s">>, <<"g","r","a","p","h","q","l">>, <<"r","e","s","t"," ","a","p","i">>,
     <<"w","e","b","p","a","c","k">>, <<"v","i","t","e">>, <<"i","o","s">>,
     <<"a","n","d","r","o","i","d">>, <<"r","e","a","c","t"," ","n","a","t","i","v","e">>,
     <<"f","l","u","t","t","e","r">>, <<"x","a","m","a","r","i","n">>, <<"i","o","n","i","c">>,
     <<"s","w","i","f","t">>, <<"k","o","t","l","i","n">>,
     <<"o","b","j","e","c","t","i","v","e","-","c">>, <<"s","q","l">>, <<"n","o","s","q","l">>,
     <<"m","o","n","g","o","d","b">>, <<"p","o","s","t","g","r","e","s","q","l">>,
     <<"m","y","s","q","l">>, <<"r","e","d","i","s">>, <<"c","a","s","s","a","n","d","r","a">>,
     <<"e","l","a","s","t","i","c","s","e","a","r","c","h">>, <<"o","r","a","c","l","e">>,
     <<"s","q","l"," ","s","e","r","v","e","r">>, <<"s","q","l","i","t","e">>,
     <<"m","a","r","i","a","d","b">>, <<"d","y","n","a","m","o","d","b">>, <<"n","e","o","4","j">>,
     <<"f","i","r","e","b","a","s","e">>, <<"p","a","n","d","a","s">>, <<"n","u","m","p","y">>,
     <<"s","c","i","k","i","t","-","l","e","a","r","n">>, <<"t","e","n","s","o","r","f","l","o","w">>,
     <<"p","y","t","o","r","c","h">>, <<"k","e","r","a","s">>, <<"o","p","e","n","c","v">>,
     <<"n","l","p">>, <<"c","o","m","p","u","t","e","r"," ","v","i","s","i","o","n">>,
     <<"m","a","c","h","i","n","e"," ","l","e","a","r","n","i","n","g">>,
     <<"d","e","e","p"," ","l","e","a","r","n","i","n","g">>,
     <<"d","a","t","a"," ","m","i","n","i","n","g">>, <<"t","a","b","l","e","a","u">>,
     <<"p","o","w","e","r"," ","b","i">>, <<"a","p","a","c","h","e"," ","s","p","a","r","k">>,
     <<"h","a","d","o","o","p">>, <<"a","i","r","f","l","o","w">>, <<"d","b","t">>,
     <<"j","u","p","y","t","e","r">>, <<"a","w","s">>, <<"a","z","u","r","e">>, <<"g","c","p">>,
     <<"h","e","r","o","k","u">>, <<"d","i","g","i","t","a","l","o","c","e","a","n">>,
     <<"l","i","n","o","d","e">>, <<"c","l","o","u","d","f","l","a","r","e">>, <<"s","3">>,
     <<"e","c","2">>, <<"l","a","m","b","d","a">>, <<"e","c","s">>, <<"f","a","r","g","a","t","e">>,
     <<"c","l","o","u","d"," ","f","u","n","c","t","i","o","n","s">>,
     <<"a","p","p"," ","e","n","g","i","n","e">>, <<"d","o","c","k","e","r">>,
     <<"k","u","b","e","r","n","e","t","e","s">>, <<"t","e","r","r","a","f","o","r","m">>,
     <<"a","n","s","i","b","l","e">>, <<"j","e","n","k","i","n","s">>,
     <<"g","i","t","l","a","b"," ","c","i">>,
     <<"g","i","t","h","u","b"," ","a","c","t","i","o","n","s">>, <<"c","i","r","c","l","e","c","i">>,
     <<"t","r","a","v","i","s"," ","c","i">>, <<"p","r","o","m","e","t","h","e","u","s">>,
     <<"g","r","a","f","a","n","a">>, <<"e","l","k"," ","s","t","a","c","k">>, <<"n","g","i","n","x">>,
     <<"a","p","a","c","h","e">>, <<"c","i","/","c","d">>, <<"h","e","l","m">>,
     <<"v","a","g","r","a","n","t">>, <<"p","u","p","p","e","t">>, <<"c","h","e","f">>, <<"g","i","t">>,
     <<"g","i","t","h","u","b">>, <<"g","i","t","l","a","b">>, <<"b","i","t","b","u","c","k","e","t">>,
     <<"j","i","r","a">>, <<"c","o","n","f","l","u","e","n","c","e">>, <<"t","r","e","l","l","o">>,
     <<"a","s","a","n","a">>, <<"s","l","a","c","k">>, <<"t","e","a","m","s">>, <<"f","i","g","m","a">>,
     <<"s","k","e","t","c","h">>, <<"a","d","o","b","e"," ","x","d">>,
     <<"p","h","o","t","o","s","h","o","p">>, <<"i","l","l","u","s","t","r","a","t","o","r">>,
     <<"e","x","c","e","l">>, <<"v","s","c","o","d","e">>, <<"i","n","t","e","l","l","i","j">>,
     <<"p","o","s","t","m","a","n">>, <<"s","w","a","g","g","e","r">>, <<"j","u","n","i","t">>,
     <<"p","y","t","e","s","t">>, <<"j","e","s","t">>, <<"m","o","c","h","a">>,
     <<"s","e","l","e","n","i","u","m">>, <<"c","y","p","r","e","s","s">>,
     <<"p","l","a","y","w","r","i","g","h","t">>, <<"t","e","s","t","n","g">>,
     <<"c","u","c","u","m","b","e","r">>, <<"u","n","i","t"," ","t","e","s","t","i","n","g">>,
     <<"i","n","t","e","g","r","a","t","i","o","n"," ","t","e","s","t","i","n","g">>,
     <<"e","2","e"," ","t","e","s","t","i","n","g">>, <<"t","d","d">>, <<"b","d","d">>,
     <<"o","a","u","t","h">>, <<"j","w","t">>, <<"s","s","l">>, <<"t","l","s">>,
     <<"e","n","c","r","y","p","t","i","o","n">>,
     <<"p","e","n","e","t","r","a","t","i","o","n"," ","t","e","s","t","i","n","g">>,
     <<"v","u","l","n","e","r","a","b","i","l","i","t","y"," ","a","s","s","e","s","s","m","e","n","t">>,
     <<"f","i","r","e","w","a","l","l">>, <<"v","p","n">>, <<"s","i","e","m">>, <<"i","d","s">>,
     <<"i","p","s">>, <<"s","s","o">>, <<"l","d","a","p">>,
     <<"a","c","t","i","v","e"," ","d","i","r","e","c","t","o","r","y">>,
     <<"b","l","o","c","k","c","h","a","i","n">>, <<"e","t","h","e","r","e","u","m">>,
     <<"s","o","l","i","d","i","t","y">>, <<"w","e","b","3">>,
     <<"s","m","a","r","t"," ","c","o","n","t","r","a","c","t","s">>, <<"d","e","f","i">>,
     <<"n","f","t">>, <<"c","r","y","p","t","o","c","u","r","r","e","n","c","y">>,
     <<"a","r","t","i","f","i","c","i","a","l"," ","i","n","t","e","l","l","i","g","e","n","c","e">>,
     <<"m","a","c","h","i","n","e"," ","l","e","a","r","n","i","n","g">>,
     <<"n","e","u","r","a","l"," ","n","e","t","w","o","r","k","s">>,
     <<"d","e","c","i","s","i","o","n"," ","t","r","e","e","s">>,
     <<"r","a","n","d","o","m"," ","f","o","r","e","s","t">>, <<"s","v","m">>,
     <<"c","l","u","s","t","e","r","i","n","g">>, <<"r","e","g","r","e","s","s","i","o","n">>,
     <<"c","l","a","s","s","i","f","i","c","a","t","i","o","n">>,
     <<"r","e","i","n","f","o","r","c","e","m","e","n","t"," ","l","e","a","r","n","i","n","g">>,
     <<"t","r","a","n","s","f","e","r"," ","l","e","a","r","n","i","n","g">>,
     <<"m","o","d","e","l"," ","d","e","p","l","o","y","m","e","n","t">>, <<"m","l","o","p","s">>,
     <<"c","r","m">>, <<"e","r","p">>, <<"s","a","l","e","s","f","o","r","c","e">>, <<"s","a","p">>,
     <<"d","y","n","a","m","i","c","s">>, <<"o","r","a","c","l","e">>,
     <<"p","e","o","p","l","e","s","o","f","t">>, <<"w","o","r","k","d","a","y">>,
     <<"q","u","i","c","k","b","o","o","k","s">>, <<"h","u","b","s","p","o","t">>,
     <<"a","g","i","l","e">>, <<"s","c","r","u","m">>, <<"k","a","n","b","a","n">>,
     <<"w","a","t","e","r","f","a","l","l">>, <<"l","e","a","n">>,
     <<"s","i","x"," ","s","i","g","m","a">>, <<"d","e","v","o","p","s">>, <<"i","t","i","l">>,
     <<"p","r","i","n","c","e","2">>, <<"p","m","p">>, <<"s","a","f","e">>, <<"u","i","/","u","x">>,
     <<"u","s","e","r"," ","e","x","p","e","r","i","e","n","c","e">>,
     <<"u","s","e","r"," ","i","n","t","e","r","f","a","c","e">>,
     <<"w","i","r","e","f","r","a","m","i","n","g">>, <<"p","r","o","t","o","t","y","p","i","n","g">>,
     <<"r","e","s","p","o","n","s","i","v","e"," ","d","e","s","i","g","n">>,
     <<"m","o","b","i","l","e","-","f","i","r","s","t">>,
     <<"a","c","c","e","s","s","i","b","i","l","i","t","y">>,
     <<"d","e","s","i","g","n"," ","s","y","s","t","e","m","s">>,
     <<"i","n","t","e","r","a","c","t","i","o","n"," ","d","e","s","i","g","n">>,
     <<"u","s","a","b","i","l","i","t","y"," ","t","e","s","t","i","n","g">>,
     <<"t","c","p","/","i","p">>, <<"d","n","s">>, <<"d","h","c","p">>, <<"v","p","n">>,
     <<"r","o","u","t","i","n","g">>, <<"s","w","i","t","c","h","i","n","g">>,
     <<"l","o","a","d"," ","b","a","l","a","n","c","i","n","g">>, <<"c","d","n">>, <<"h","t","t","p">>,
     <<"h","t","t","p","s">>, <<"f","t","p">>, <<"s","s","h">>, <<"l","a","n">>, <<"w","a","n">>,
     <<"g","o","o","g","l","e"," ","a","n","a","l","y","t","i","c","s">>,
     <<"m","i","x","p","a","n","e","l">>, <<"a","m","p","l","i","t","u","d","e">>,
     <<"s","e","g","m","e","n","t">>, <<"a","/","b"," ","t","e","s","t","i","n","g">>,
     <<"c","o","n","v","e","r","s","i","o","n"," ","o","p","t","i","m","i","z","a","t","i","o","n">>,
     <<"d","a","t","a"," ","v","i","s","u","a","l","i","z","a","t","i","o","n">>, <<"k","p","i">>,
     <<"m","e","t","r","i","c","s">>, <<"r","e","p","o","r","t","i","n","g">>,
     <<"s","h","o","p","i","f","y">>, <<"m","a","g","e","n","t","o">>,
     <<"w","o","o","c","o","m","m","e","r","c","e">>, <<"s","t","r","i","p","e">>,
     <<"p","a","y","p","a","l">>, <<"p","a","y","m","e","n","t"," ","g","a","t","e","w","a","y">>,
     <<"i","n","v","e","n","t","o","r","y"," ","m","a","n","a","g","e","m","e","n","t">>,
     <<"o","r","d","e","r"," ","f","u","l","f","i","l","l","m","e","n","t">>, <<"c","m","s">>,
     <<"w","o","r","d","p","r","e","s","s">>, <<"d","r","u","p","a","l">>,
     <<"c","o","n","t","e","n","t","f","u","l">>, <<"s","a","n","i","t","y">>,
     <<"s","t","r","a","p","i">>, <<"s","e","o">>, <<"s","e","m">>,
     <<"c","o","n","t","e","n","t"," ","s","t","r","a","t","e","g","y">>,
     <<"c","o","p","y","w","r","i","t","i","n","g">>, <<"i","o","t">>,
     <<"r","a","s","p","b","e","r","r","y"," ","p","i">>, <<"a","r","d","u","i","n","o">>,
     <<"m","q","t","t">>, <<"e","m","b","e","d","d","e","d"," ","s","y","s","t","e","m","s">>,
     <<"s","e","n","s","o","r","s">>, <<"e","d","g","e"," ","c","o","m","p","u","t","i","n","g">>>>

\* self.action_verbs (113 entries, 'streamlined' and 'developed' twice)
action_verbs ==
    <<<<"l","e","d">>, <<"m","a","n","a","g","e","d">>, <<"d","i","r","e","c","t","e","d">>,
     <<"s","u","p","e","r","v","i","s","e","d">>, <<"c","o","o","r","d","i","n","a","t","e","d">>,
     <<"o","r","c","h","e","s","t","r","a","t","e","d">>, <<"d","e","l","e","g","a","t","e","d">>,
     <<"m","e","n","t","o","r","e","d">>, <<"c","o","a","c","h","e","d">>, <<"g","u","i","d","e","d">>,
     <<"c","h","a","m","p","i","o","n","e","d">>, <<"s","p","e","a","r","h","e","a","d","e","d">>,
     <<"h","e","a","d","e","d">>, <<"a","c","h","i","e","v","e","d">>,
     <<"a","c","c","o","m","p","l","i","s","h","e","d">>, <<"a","t","t","a","i","n","e","d">>,
     <<"d","e","l","i","v","e","r","e","d">>, <<"e","x","c","e","e","d","e","d">>,
     <<"s","u","r","p","a","s","s","e","d">>, <<"o","u","t","p","e","r","f","o","r","m","e","d">>,
     <<"w","o","n">>, <<"c","r","e","a","t","e","d">>, <<"d","e","v","e","l","o","p","e","d">>,
     <<"d","e","s","i","g","n","e","d">>, <<"b","u","i","l","t">>,
     <<"e","s","t","a","b","l","i","s","h","e","d">>, <<"f","o","u","n","d","e","d">>,
     <<"f","o","r","m","u","l","a","t","e","d">>, <<"g","e","n","e","r","a","t","e","d">>,
     <<"i","n","i","t","i","a","t","e","d">>, <<"i","n","t","r","o","d","u","c","e","d">>,
     <<"l","a","u","n","c","h","e","d">>, <<"p","i","o","n","e","e","r","e","d">>,
     <<"p","r","o","d","u","c","e","d">>, <<"e","n","g","i","n","e","e","r","e","d">>,
     <<"a","r","c","h","i","t","e","c","t","e","d">>, <<"i","m","p","r","o","v","e","d">>,
     <<"e","n","h","a","n","c","e","d">>, <<"o","p","t","i","m","i","z","e","d">>,
     <<"s","t","r","e","a","m","l","i","n","e","d">>, <<"r","e","f","i","n","e","d">>,
     <<"u","p","g","r","a","d","e","d">>, <<"m","o","d","e","r","n","i","z","e","d">>,
     <<"t","r","a","n","s","f","o","r","m","e","d">>, <<"r","e","v","i","t","a","l","i","z","e","d">>,
     <<"s","t","r","e","n","g","t","h","e","n","e","d">>, <<"a","n","a","l","y","z","e","d">>,
     <<"e","v","a","l","u","a","t","e","d">>, <<"a","s","s","e","s","s","e","d">>,
     <<"e","x","a","m","i","n","e","d">>, <<"i","n","v","e","s","t","i","g","a","t","e","d">>,
     <<"r","e","s","e","a","r","c","h","e","d">>, <<"s","t","u","d","i","e","d">>,
     <<"s","u","r","v","e","y","e","d">>, <<"i","d","e","n","t","i","f","i","e","d">>,
     <<"d","i","a","g","n","o","s","e","d">>, <<"i","n","c","r","e","a","s","e","d">>,
     <<"e","x","p","a","n","d","e","d">>, <<"g","r","e","w">>, <<"b","o","o","s","t","e","d">>,
     <<"a","c","c","e","l","e","r","a","t","e","d">>, <<"m","a","x","i","m","i","z","e","d">>,
     <<"s","c","a","l","e","d">>, <<"a","m","p","l","i","f","i","e","d">>,
     <<"r","e","d","u","c","e","d">>, <<"d","e","c","r","e","a","s","e","d">>,
     <<"m","i","n","i","m","i","z","e","d">>, <<"e","l","i","m","i","n","a","t","e","d">>,
     <<"s","t","r","e","a","m","l","i","n","e","d">>, <<"s","i","m","p","l","i","f","i","e","d">>,
     <<"a","u","t","o","m","a","t","e","d">>, <<"c","o","n","s","o","l","i","d","a","t","e","d">>,
     <<"p","r","e","s","e","n","t","e","d">>, <<"c","o","m","m","u","n","i","c","a","t","e","d">>,
     <<"n","e","g","o","t","i","a","t","e","d">>, <<"p","e","r","s","u","a","d","e","d">>,
     <<"i","n","f","l","u","e","n","c","e","d">>, <<"a","r","t","i","c","u","l","a","t","e","d">>,
     <<"c","o","n","v","e","y","e","d">>, <<"c","o","l","l","a","b","o","r","a","t","e","d">>,
     <<"f","a","c","i","l","i","t","a","t","e","d">>, <<"i","m","p","l","e","m","e","n","t","e","d">>,
     <<"e","x","e","c","u","t","e","d">>, <<"d","e","p","l","o","y","e","d">>,
     <<"i","n","t","e","g","r","a","t","e","d">>, <<"i","n","s","t","a","l","l","e","d">>,
     <<"c","o","n","f","i","g","u","r","e","d">>, <<"m","i","g","r","a","t","e","d">>,
     <<"r","o","l","l","e","d"," ","o","u","t">>, <<"p","l","a","n","n","e","d">>,
     <<"s","t","r","a","t","e","g","i","z","e","d">>, <<"f","o","r","e","c","a","s","t","e","d">>,
     <<"b","u","d","g","e","t","e","d">>, <<"p","r","i","o","r","i","t","i","z","e","d">>,
     <<"o","r","g","a","n","i","z","e","d">>, <<"s","t","r","u","c","t","u","r","e","d">>,
     <<"s","o","l","v","e","d">>, <<"r","e","s","o","l","v","e","d">>,
     <<"t","r","o","u","b","l","e","s","h","o","t">>, <<"d","e","b","u","g","g","e","d">>,
     <<"f","i","x","e","d">>, <<"a","d","d","r","e","s","s","e","d">>,
     <<"o","v","e","r","c","a","m","e">>, <<"t","r","a","i","n","e","d">>,
     <<"e","d","u","c","a","t","e","d">>, <<"i","n","s","t","r","u","c","t","e","d">>,
     <<"o","n","b","o","a","r","d","e","d">>, <<"d","e","v","e","l","o","p","e","d">>,
     <<"m","a","i","n","t","a","i","n","e","d">>, <<"s","u","s","t","a","i","n","e","d">>,
     <<"s","u","p","p","o","r","t","e","d">>, <<"a","d","m","i","n","i","s","t","e","r","e","d">>,
     <<"m","o","n","i","t","o","r","e","d">>>>

soft_skills_keywords ==
    <<<<"c","o","m","m","u","n","i","c","a","t","i","o","n">>,
     <<"w","r","i","t","t","e","n"," ","c","o","m","m","u","n","i","c","a","t","i","o","n">>,
     <<"v","e","r","b","a","l"," ","c","o","m","m","u","n","i","c","a","t","i","o","n">>,
     <<"p","r","e","s","e","n","t","a","t","i","o","n">>,
     <<"p","u","b","l","i","c"," ","s","p","e","a","k","i","n","g">>,
     <<"a","c","t","i","v","e"," ","l","i","s","t","e","n","i","n","g">>,
     <<"i","n","t","e","r","p","e","r","s","o","n","a","l">>,
     <<"n","e","g","o","t","i","a","t","i","o","n">>, <<"l","e","a","d","e","r","s","h","i","p">>,
     <<"t","e","a","m"," ","l","e","a","d","e","r","s","h","i","p">>,
     <<"m","e","n","t","o","r","i","n","g">>, <<"c","o","a","c","h","i","n","g">>,
     <<"d","e","l","e","g","a","t","i","o","n">>,
     <<"c","o","n","f","l","i","c","t"," ","r","e","s","o","l","u","t","i","o","n">>,
     <<"d","e","c","i","s","i","o","n"," ","m","a","k","i","n","g">>,
     <<"t","e","a","m","w","o","r","k">>, <<"c","o","l","l","a","b","o","r","a","t","i","o","n">>,
     <<"c","r","o","s","s","-","f","u","n","c","t","i","o","n","a","l">>,
     <<"t","e","a","m"," ","p","l","a","y","e","r">>, <<"c","o","o","p","e","r","a","t","i","v","e">>,
     <<"p","r","o","b","l","e","m"," ","s","o","l","v","i","n","g">>,
     <<"c","r","i","t","i","c","a","l"," ","t","h","i","n","k","i","n","g">>,
     <<"a","n","a","l","y","t","i","c","a","l">>,
     <<"t","r","o","u","b","l","e","s","h","o","o","t","i","n","g">>,
     <<"i","n","n","o","v","a","t","i","v","e">>,
     <<"c","r","e","a","t","i","v","e"," ","t","h","i","n","k","i","n","g">>,
     <<"a","d","a","p","t","a","b","l","e">>, <<"f","l","e","x","i","b","l","e">>,
     <<"r","e","s","i","l","i","e","n","t">>,
     <<"s","e","l","f","-","m","o","t","i","v","a","t","e","d">>,
     <<"p","r","o","a","c","t","i","v","e">>, <<"i","n","i","t","i","a","t","i","v","e">>,
     <<"i","n","d","e","p","e","n","d","e","n","t">>, <<"r","e","l","i","a","b","l","e">>,
     <<"p","u","n","c","t","u","a","l">>, <<"o","r","g","a","n","i","z","e","d">>,
     <<"d","e","t","a","i","l"," ","o","r","i","e","n","t","e","d">>,
     <<"t","i","m","e"," ","m","a","n","a","g","e","m","e","n","t">>,
     <<"m","u","l","t","i","t","a","s","k","i","n","g">>,
     <<"p","r","i","o","r","i","t","i","z","a","t","i","o","n">>,
     <<"p","r","o","j","e","c","t"," ","m","a","n","a","g","e","m","e","n","t">>,
     <<"d","e","d","i","c","a","t","e","d">>, <<"c","o","m","m","i","t","t","e","d">>,
     <<"p","r","o","f","e","s","s","i","o","n","a","l">>,
     <<"a","c","c","o","u","n","t","a","b","l","e">>, <<"r","e","s","p","o","n","s","i","b","l","e">>,
     <<"e","t","h","i","c","a","l">>, <<"q","u","i","c","k"," ","l","e","a","r","n","e","r">>,
     <<"c","o","n","t","i","n","u","o","u","s"," ","l","e","a","r","n","i","n","g">>,
     <<"g","r","o","w","t","h"," ","m","i","n","d","s","e","t">>, <<"c","u","r","i","o","u","s">>,
     <<"e","a","g","e","r"," ","t","o"," ","l","e","a","r","n">>,
     <<"c","u","s","t","o","m","e","r"," ","f","o","c","u","s","e","d">>,
     <<"c","u","s","t","o","m","e","r"," ","s","e","r","v","i","c","e">>,
     <<"c","l","i","e","n","t"," ","r","e","l","a","t","i","o","n","s">>,
     <<"s","t","a","k","e","h","o","l","d","e","r"," ","m","a","n","a","g","e","m","e","n","t">>,
     <<"r","e","s","u","l","t","s"," ","d","r","i","v","e","n">>,
     <<"g","o","a","l"," ","o","r","i","e","n","t","e","d">>,
     <<"p","e","r","f","o","r","m","a","n","c","e"," ","d","r","i","v","e","n">>,
     <<"a","c","h","i","e","v","e","m","e","n","t"," ","o","r","i","e","n","t","e","d">>>>

\* mutant: token-exact matching, a word counts only between non-word characters
found_as_tokens(words, text_lower) ==
    SelectSeq(words, LAMBDA w :
        \E i \in 1..(Len(text_lower) - Len(w) + 1) :
            /\ MatchAt(text_lower, i, w)
            /\ ~IsWordChar(CharAt(text_lower, i - 1))
            /\ ~IsWordChar(CharAt(text_lower, i + Len(w))))

\* the entries of `words` that occur in text_lower, in the order of `words`
\* (a word can only occur when the text holds its first character and each
\* pair of neighbouring characters of it: the search is skipped for the others)
found_in(words, text_lower) ==
    LET chars == {text_lower[i] : i \in 1..Len(text_lower)}
        pairs == {<<text_lower[i], text_lower[i + 1]>> : i \in 1..(Len(text_lower) - 1)}
    IN  SelectSeq(words, LAMBDA w :
            /\ w[1] \in chars
            /\ \A j \in 1..(Len(w) - 1) : <<w[j], w[j + 1]>> \in pairs
            /\ Contains(text_lower, w))

\* mutant: the list cut to three skills after the conversion to a set
_extract_technical_skills_first_three(text, seed) ==
    Prefix(list_of_set(set_of_list(found_in(technical_skills, str_lower(text))), seed), 3)

\* list(set(found_skills))
_extract_technical_skills(text, seed) ==
    list_of_set(set_of_list(found_in(technical_skills, str_lower(text))), seed)

_extract_soft_skills(text) == found_in(soft_skills_keywords, str_lower(text))

_extract_action_verbs(cv_text) == found_in(action_verbs, str_lower(cv_text))

\* ------------------------------------------------------------------------
\* Regular expressions, matched position by position
\* ------------------------------------------------------------------------

\* the last index of the longest run of characters of S that starts at i
\* (i - 1 when there is none): where a greedy \d+, \s+ or \w+ stops
RunEnd(t, i, S) ==
    IF CharAt(t, i) \notin S THEN i - 1
    ELSE CHOOSE j \in i..Len(t) :
             /\ \A k \in i..j : t[k] \in S
             /\ CharAt(t, j + 1) \notin S

\* achievement_patterns[p] matched at position s of t: where the match ends
\* and what the group captured; end = 0 when there is no match at s.
\*   1: r'(\d+)%\s+\w+'
\*   2, 3: r'increased\s+\w+\s+by\s+(\d+)', r'reduced\s+\w+\s+by\s+(\d+)'
\*   4, 5: r'managed\s+(\d+)\s+\w+', r'led\s+(\d+)\s+\w+'
\* (2 to 5 under re.IGNORECASE)
achievement_match(p, t, s) ==
    LET no_match == [end |-> 0, group |-> <<>>]
        verb == CASE p = 2 -> <<"i","n","c","r","e","a","s","e","d">>
                  [] p = 3 -> <<"r","e","d","u","c","e","d">>
                  [] p = 4 -> <<"m","a","n","a","g","e","d">>
                  [] p = 5 -> <<"l","e","d">>
                  [] OTHER -> <<>>
        v == s + Len(verb) - 1
        percent_word ==
            LET d == RunEnd(t, s, Digits)
                w == RunEnd(t, d + 2, Spaces)
                e == RunEnd(t, w + 1, WordChars)
            IN  IF d >= s /\ CharAt(t, d + 1) = "%" /\ w >= d + 2 /\ e >= w + 1
                THEN [end |-> e, group |-> SubSeq(t, s, d)]
                ELSE no_match
        verb_by_number ==
            LET a == RunEnd(t, v + 1, Spaces)
                b == RunEnd(t, a + 1, WordChars)
                c == RunEnd(t, b + 1, Spaces)
                f == RunEnd(t, c + 3, Spaces)
                d == RunEnd(t, f + 1, Digits)
            IN  IF /\ MatchAtCI(t, s, verb)
                   /\ a >= v + 1 /\ b >= a + 1 /\ c >= b + 1
                   /\ MatchAtCI(t, c + 1, <<"b","y">>)
                   /\ f >= c + 3 /\ d >= f + 1
                THEN [end |-> d, group |-> SubSeq(t, f + 1, d)]
                ELSE no_match
        verb_number_word ==
            LET a == RunEnd(t, v + 1, Spaces)
                d == RunEnd(t, a + 1, Digits)
                c == RunEnd(t, d + 1, Spaces)
                e == RunEnd(t, c + 1, WordChars)
            IN  IF MatchAtCI(t, s, verb) /\ a >= v + 1 /\ d >= a + 1 /\ c >= d + 1 /\ e >= c + 1
                THEN [end |-> e, group |-> SubSeq(t, a + 1, d)]
                ELSE no_match
    IN  CASE p = 1 -> percent_word
          [] p \in {2, 3} -> verb_by_number
          [] p \in {4, 5} -> verb_number_word

\* re.findall(achievement_patterns[p], t): the groups of the non-overlapping
\* matches, from the left, searching on from position pos
RECURSIVE findall_from(_, _, _)
findall_from(p, t, pos) ==
    LET starts == {s \in pos..Len(t) : achievement_match(p, t, s).end > 0}
    IN  IF starts = {} THEN <<>>
        ELSE LET s == CHOOSE x \in starts : \A y \in starts : x <= y
                 m == achievement_match(p, t, s)
             IN  <<m.group>> \o findall_from(p, t, m.end + 1)

\* mutant: every match kept
_extract_achievements_untruncated(cv_text) ==
    Flatten([p \in 1..5 |-> findall_from(p, cv_text, 1)])

\* achievements.extend(matches) for each pattern, then achievements[:10]
_extract_achievements(cv_text) ==
    Prefix(Flatten([p \in 1..5 |-> findall_from(p, cv_text, 1)]), 10)

extract_keywords_from_cv(cv_text, seed) ==
    LET cleaned_text == _clean_text(cv_text)
        tokens == _tokenize_and_filter(cleaned_text)
    IN  [all_keywords |-> _get_top_keywords(tokens, 20),
         technical_skills |-> _extract_technical_skills(cv_text, seed),
         action_verbs |-> _extract_action_verbs(cv_text),
         achievements |-> _extract_achievements(cv_text)]

\* 'requirements' and 'qualifications' are left out: no caller reads them
extract_keywords_from_job_description(job_description, seed) ==
    LET cleaned_text == _clean_text(job_description)
        tokens == _tokenize_and_filter(cleaned_text)
    IN  [all_keywords |-> _get_top_keywords(tokens, 20),
         technical_skills |-> _extract_technical_skills(job_description, seed),
         soft_skills |-> _extract_soft_skills(job_description)]

\* ------------------------------------------------------------------------
\* CVAnalyzer: structure analysis (utils/cv_analyzer.py)
\* ------------------------------------------------------------------------

\* email_pattern r'\b[A-Za-z0-9._%+-]+@[A-Za-z0-9.-]+\.[A-Z|a-z]{2,}\b' and
\* phone_pattern r'(\+?\d{1,3}[-.\s]?)?\(?\d{3}\)?[-.\s]?\d{3}[-.\s]?\d{4}',
\* each searched in the text
_has_contact_info(cv_text) ==
    LET t == cv_text
        letters == UpperSet \cup LowerSet
        all_in(a, b, S) == \A k \in a..b : t[k] \in S
        \* the regex assertion \b between positions i - 1 and i
        boundary(i) == IsWordChar(CharAt(t, i - 1)) # IsWordChar(CharAt(t, i))
        \* local part a..at-1, domain at+1..q-1, the dot at q, the ending q+1..e
        has_email ==
            \E at \in 1..Len(t) :
                /\ t[at] = "@"
                /\ \E a \in 1..(at - 1) :
                       /\ all_in(a, at - 1, letters \cup Digits \cup {".", "_", "%", "+", "-"})
                       /\ boundary(a)
                /\ \E q \in (at + 2)..Len(t) :
                       /\ t[q] = "."
                       /\ all_in(at + 1, q - 1, letters \cup Digits \cup {".", "-"})
                       /\ \E e \in (q + 2)..Len(t) :
                              all_in(q + 1, e, letters \cup {"|"}) /\ boundary(e + 1)
        \* [-.\s]
        separators == {"-", "."} \cup Spaces
        \* the positions the regex can be at after an optional character of S at i
        opt(i, S) == IF CharAt(t, i) \in S THEN {i, i + 1} ELSE {i}
        \* \d{n} at position i
        digits(i, n) == i + n - 1 <= Len(t) /\ \A k \in i..(i + n - 1) : IsDigit(t[k])
        \* the positions after (\+?\d{1,3}[-.\s]?)? tried at s
        prefix_ends(s) ==
            {s} \cup UNION {UNION {opt(a + n, separators) : n \in {m \in 1..3 : digits(a, m)}} :
                               a \in opt(s, {"+"})}
        has_phone ==
            \E s \in 1..Len(t) :
                /\ IsDigit(t[s]) \/ t[s] \in {"+", "("}
                /\ \E p0 \in prefix_ends(s) : \E p1 \in opt(p0, {"("}) :
                       /\ digits(p1, 3)
                       /\ \E p2 \in opt(p1 + 3, {")"}) : \E p3 \in opt(p2, separators) :
                              /\ digits(p3, 3)
                              /\ \E p4 \in opt(p3 + 3, separators) : digits(p4, 4)
    IN  has_email \/ has_phone

\* any(keyword in cv_lower for keyword in keywords)
any_in(keywords, cv_lower) == found_in(keywords, cv_lower) # <<>>

_has_summary_section(cv_text) ==
    any_in(<<<<"s","u","m","m","a","r","y">>, <<"p","r","o","f","i","l","e">>,
            <<"o","b","j","e","c","t","i","v","e">>, <<"a","b","o","u","t"," ","m","e">>>>,
           str_lower(cv_text))

_has_experience_section(cv_text) ==
    any_in(<<<<"e","x","p","e","r","i","e","n","c","e">>, <<"e","m","p","l","o","y","m","e","n","t">>,
            <<"w","o","r","k"," ","h","i","s","t","o","r","y">>,
            <<"p","r","o","f","e","s","s","i","o","n","a","l"," ","e","x","p","e","r","i","e","n","c","e">>>>,
           str_lower(cv_text))

_has_education_section(cv_text) ==
    any_in(<<<<"e","d","u","c","a","t","i","o","n">>, <<"a","c","a","d","e","m","i","c">>,
            <<"q","u","a","l","i","f","i","c","a","t","i","o","n","s">>, <<"d","e","g","r","e","e">>>>,
           str_lower(cv_text))

_has_skills_section(cv_text) ==
    any_in(<<<<"s","k","i","l","l","s">>, <<"t","e","c","h","n","i","c","a","l"," ","s","k","i","l","l","s">>,
            <<"c","o","m","p","e","t","e","n","c","i","e","s">>, <<"e","x","p","e","r","t","i","s","e">>>>,
           str_lower(cv_text))

\* bullet_patterns under re.MULTILINE: r'[•\-\*]', r'^\s*[-*+]\s',
\* r'^\s*\d+\.\s'; the bullet character is the one-character string "BULLET"
_uses_bullet_points(cv_text) ==
    LET t == cv_text
        \* ^: the start of the text or of a line
        line_start(s) == s = 1 \/ t[s - 1] = "\n"
    IN  \/ \E i \in 1..Len(t) : t[i] \in {"BULLET", "-", "*"}
        \/ \E s \in 1..Len(t) :
               /\ line_start(s)
               /\ LET e == RunEnd(t, s, Spaces)
                  IN  CharAt(t, e + 1) \in {"-", "*", "+"} /\ IsSpace(CharAt(t, e + 2))
        \/ \E s \in 1..Len(t) :
               /\ line_start(s)
               /\ LET e == RunEnd(t, s, Spaces)
                      d == RunEnd(t, e + 1, Digits)
                  IN  d >= e + 1 /\ CharAt(t, d + 1) = "." /\ IsSpace(CharAt(t, d + 2))

\* re.search(verb + r'.*\d+', t, re.IGNORECASE): the verb, then a digit
\* further on the same line ('.' matches anything but a newline)
verb_then_number(t, verb) ==
    \E s \in 1..Len(t) :
        /\ MatchAtCI(t, s, verb)
        /\ \E d \in (s + Len(verb))..Len(t) :
               IsDigit(t[d]) /\ \A k \in (s + Len(verb))..(d - 1) : t[k] # "\n"

\* number_patterns, each under re.IGNORECASE: r'\d+%', r'\$\d+',
\* r'\d+\s*(million|thousand|k)', r'increased.*\d+', r'reduced.*\d+',
\* r'managed.*\d+'
_has_quantified_achievements(cv_text) ==
    LET t == cv_text
    IN  \/ \E i \in 1..Len(t) : IsDigit(t[i]) /\ CharAt(t, i + 1) = "%"
        \/ \E i \in 1..Len(t) : t[i] = "$" /\ IsDigit(CharAt(t, i + 1))
        \/ \E i \in 1..Len(t) :
               /\ IsDigit(t[i])
               /\ \E j \in (i + 1)..(RunEnd(t, i + 1, Spaces) + 1) :
                      \/ MatchAtCI(t, j, <<"m","i","l","l","i","o","n">>)
                      \/ MatchAtCI(t, j, <<"t","h","o","u","s","a","n","d">>)
                      \/ MatchAtCI(t, j, <<"k">>)
        \/ verb_then_number(t, <<"i","n","c","r","e","a","s","e","d">>)
        \/ verb_then_number(t, <<"r","e","d","u","c","e","d">>)
        \/ verb_then_number(t, <<"m","a","n","a","g","e","d">>)

\* mutant: the bounds taken as exclusive
_check_length_exclusive(cv_text) ==
    LET word_count == word_count_of(cv_text)
    IN  200 < word_count /\ word_count < 1000

_check_length(cv_text) ==
    LET word_count == word_count_of(cv_text)
    IN  200 <= word_count /\ word_count <= 1000

\* the counts of re.findall(r'[A-Z]{3,}', t) (the maximal runs of 3 or more
\* capitals), of re.findall(r'\s{3,}', t) and of
\* re.findall(r'[^\w\s.,;:()\-@]', t) against their limits
_detect_formatting_issues(cv_text) ==
    LET t == cv_text
        runs_of_three(S) ==
            Cardinality({i \in 1..Len(t) :
                /\ t[i] \in S /\ CharAt(t, i - 1) \notin S
                /\ CharAt(t, i + 1) \in S /\ CharAt(t, i + 2) \in S})
        special_chars ==
            {i \in 1..Len(t) :
                /\ ~IsWordChar(t[i]) /\ ~IsSpace(t[i])
                /\ t[i] \notin {".", ",", ";", ":", "(", ")", "-", "@"}}
    IN  (IF runs_of_three(UpperSet) > 10 THEN <<"Excessive capitalization detected">> ELSE <<>>)
        \o (IF runs_of_three(Spaces) > 5 THEN <<"Inconsistent spacing detected">> ELSE <<>>)
        \o (IF Cardinality(special_chars) > 20 THEN <<"Too many special characters">> ELSE <<>>)

\* list(set(detected_sections)) over section_keywords
_detect_sections(cv_text, seed) ==
    LET section_keywords ==
            <<<<"s","u","m","m","a","r","y">>, <<"p","r","o","f","i","l","e">>,
             <<"o","b","j","e","c","t","i","v","e">>, <<"a","b","o","u","t">>,
             <<"e","x","p","e","r","i","e","n","c","e">>, <<"e","m","p","l","o","y","m","e","n","t">>,
             <<"w","o","r","k"," ","h","i","s","t","o","r","y">>, <<"e","d","u","c","a","t","i","o","n">>,
             <<"a","c","a","d","e","m","i","c">>, <<"q","u","a","l","i","f","i","c","a","t","i","o","n","s">>,
             <<"s","k","i","l","l","s">>, <<"t","e","c","h","n","i","c","a","l"," ","s","k","i","l","l","s">>,
             <<"c","o","m","p","e","t","e","n","c","i","e","s">>, <<"p","r","o","j","e","c","t","s">>,
             <<"c","e","r","t","i","f","i","c","a","t","i","o","n","s">>,
             <<"a","c","h","i","e","v","e","m","e","n","t","s">>>>
    IN  list_of_set(set_of_list(found_in(section_keywords, str_lower(cv_text))), seed)

_has_action_verbs(cv_text) ==
    any_in(<<<<"a","c","h","i","e","v","e","d">>, <<"m","a","n","a","g","e","d">>, <<"l","e","d">>,
            <<"d","e","v","e","l","o","p","e","d">>, <<"i","m","p","l","e","m","e","n","t","e","d">>,
            <<"c","r","e","a","t","e","d">>, <<"d","e","s","i","g","n","e","d">>,
            <<"i","m","p","r","o","v","e","d">>, <<"i","n","c","r","e","a","s","e","d">>,
            <<"r","e","d","u","c","e","d">>, <<"o","p","t","i","m","i","z","e","d">>>>,
           str_lower(cv_text))

\* an opportunity is an f-string: its literal text with the hole, and the
\* value in the hole
_find_enhancement_opportunities(cv_text, job_description) ==
    LET cv_lower == str_lower(cv_text)
        weak_words == <<<<"r","e","s","p","o","n","s","i","b","l","e"," ","f","o","r">>,
                       <<"d","u","t","i","e","s"," ","i","n","c","l","u","d","e","d">>,
                       <<"h","e","l","p","e","d"," ","w","i","t","h">>>>
        quantifiable_verbs == <<<<"m","a","n","a","g","e","d">>, <<"l","e","d">>, <<"i","n","c","r","e","a","s","e","d">>,
                               <<"r","e","d","u","c","e","d">>, <<"i","m","p","r","o","v","e","d">>>>
        weak == found_in(weak_words, cv_lower)
        verbs == SelectSeq(found_in(quantifiable_verbs, cv_lower), LAMBDA v :
                     ~verb_then_number(cv_text, v))
    IN  [k \in 1..Len(weak) |->
            [text |-> "Replace \"{weak_word}\" with stronger action verbs", value |-> weak[k]]]
        \o [k \in 1..Len(verbs) |->
               [text |-> "Add numbers/metrics to \"{verb}\" statements", value |-> verbs[k]]]

_analyze_structure(cv_text, seed) ==
    [has_contact_info |-> _has_contact_info(cv_text),
     has_summary |-> _has_summary_section(cv_text),
     has_experience |-> _has_experience_section(cv_text),
     has_education |-> _has_education_section(cv_text),
     has_skills |-> _has_skills_section(cv_text),
     uses_bullet_points |-> _uses_bullet_points(cv_text),
     has_quantified_achievements |-> _has_quantified_achievements(cv_text),
     appropriate_length |-> _check_length(cv_text),
     section_count |-> Len(_detect_sections(cv_text, seed)),
     formatting_issues |-> _detect_formatting_issues(cv_text)]

\* ------------------------------------------------------------------------
\* OllamaClient as analyze_cv uses it (utils/ollama_client.py)
\* ------------------------------------------------------------------------

DigitChars == <<"0","1","2","3","4","5","6","7","8","9">>

\* str(n) for an int n >= 0
RECURSIVE int_to_str(_)
int_to_str(n) ==
    IF n < 10 THEN <<DigitChars[n + 1]>>
    ELSE int_to_str(n \div 10) \o <<DigitChars[(n % 10) + 1]>>

\* int(s) for a string of decimal digits
RECURSIVE int_of_digits(_)
int_of_digits(s) ==
    IF s = <<>> THEN 0
    ELSE 10 * int_of_digits(SubSeq(s, 1, Len(s) - 1))
         + (CHOOSE d \in 0..9 : DigitChars[d + 1] = s[Len(s)])

\* sep.join(items)
RECURSIVE join(_, _)
join(sep, items) ==
    IF items = <<>> THEN <<>>
    ELSE IF Len(items) = 1 THEN items[1]
    ELSE items[1] \o sep \o join(sep, Tail(items))

\* reply is what the POST meets: `raised` (the request raised, with
\* str(e) as message), or a status code and a JSON body
generate_response(reply) ==
    IF reply.raised
    THEN <<"E","r","r","o","r"," ","c","o","n","n","e","c","t","i","n","g"," ","t","o"," ","O","l","l","a","m","a",":"," ">>
         \o reply.message
    ELSE IF reply.status_code = 200
         THEN IF reply.has_response THEN reply.response
              ELSE <<"N","o"," ","r","e","s","p","o","n","s","e"," ","g","e","n","e","r","a","t","e","d">>
         ELSE <<"E","r","r","o","r",":"," ","H","T","T","P"," ">> \o int_to_str(reply.status_code)

_parse_cv_analysis(analysis_text) ==
    LET t == analysis_text
        \* re.search(r'SCORE:\s*(\d+)', t): the starts of its matches
        starts == {s \in 1..Len(t) :
                      /\ MatchAt(t, s, <<"S","C","O","R","E",":">>)
                      /\ IsDigit(CharAt(t, RunEnd(t, s + 6, Spaces) + 1))}
        \* the group of the leftmost match
        group == LET s == CHOOSE x \in starts : \A y \in starts : x <= y
                     d == RunEnd(t, s + 6, Spaces) + 1
                 IN  SubSeq(t, d, RunEnd(t, d, Digits))
        \* str.strip()
        strip(s) ==
            LET solid == {i \in 1..Len(s) : ~IsSpace(s[i])}
            IN  IF solid = {} THEN <<>>
                ELSE SubSeq(s, CHOOSE i \in solid : \A j \in solid : i <= j,
                               CHOOSE i \in solid : \A j \in solid : i >= j)
        \* t.split('\n'), each line stripped
        breaks == SelectSeq(Indices(t), LAMBDA i : t[i] = "\n")
        from(k) == IF k = 1 THEN 1 ELSE breaks[k - 1] + 1
        to(k) == IF k = Len(breaks) + 1 THEN Len(t) ELSE breaks[k] - 1
        lines_of_text == Tuple([k \in 1..(Len(breaks) + 1) |-> strip(SubSeq(t, from(k), to(k)))])
        upper(line) ==
            [i \in 1..Len(line) |->
                IF line[i] \in LowerSet
                THEN UpperLetters[CHOOSE c \in DOMAIN LowerLetters : LowerLetters[c] = line[i]]
                ELSE line[i]]
        section_headers ==
            <<<<"S","T","R","E","N","G","T","H","S",":">>,
             <<"A","R","E","A","S"," ","F","O","R"," ","I","M","P","R","O","V","E","M","E","N","T",":">>,
             <<"M","I","S","S","I","N","G"," ","K","E","Y","W","O","R","D","S",":">>,
             <<"R","E","C","O","M","M","E","N","D","A","T","I","O","N","S",":">>>>
        \* line.upper().startswith((...))
        headers_of(lines) ==
            {i \in 1..Len(lines) :
                \E h \in DOMAIN section_headers :
                    MatchAt(upper(lines[i]), 1, section_headers[h])}
        \* line.rstrip(':').lower().replace(' ', '_')
        name_of(line) ==
            LET kept == {i \in 1..Len(line) : line[i] # ":"}
                n == IF kept = {} THEN 0 ELSE CHOOSE i \in kept : \A j \in kept : i >= j
            IN  [i \in 1..n |-> IF line[i] = " " THEN "_" ELSE lower_char(line[i])]
        \* the sections of the lines (the lines and their headers are bound
        \* once, as the loop over the lines binds them)
        sections_of(lines, headers) ==
            LET next_header(i) ==
                    IF \E j \in headers : j > i
                    THEN CHOOSE j \in headers : j > i /\ \A m \in headers : m > i => j <= m
                    ELSE Len(lines) + 1
                \* the non-empty lines up to the next header, joined
                content(i) == join(<<"\n">>, SelectSeq(SubSeq(lines, i + 1, next_header(i) - 1),
                                                      LAMBDA line : line # <<>>))
                \* a name that comes twice keeps the later content
                last_with(name) == CHOOSE i \in headers :
                                       /\ name_of(lines[i]) = name
                                       /\ \A j \in headers : name_of(lines[j]) = name => j <= i
            IN  [name \in {name_of(lines[i]) : i \in headers} |-> content(last_with(name))]
        sections == CHOOSE found \in UNION {{sections_of(lines, headers) :
                                                headers \in {headers_of(lines)}} :
                                            lines \in {lines_of_text}} : TRUE
    IN  [score |-> IF starts # {} THEN int_of_digits(group) ELSE 70,
         analysis_text |-> analysis_text,
         sections |-> sections]

analyze_cv_content(reply) == _parse_cv_analysis(generate_response(reply))

\* mutant: the request is made without asking is_connected() first
_get_ai_analysis_unguarded(server) == analyze_cv_content(server.reply)

\* server: whether GET /api/tags answers 200 with a model list
\* (is_connected), and what the POST of generate_response meets
_get_ai_analysis(server) ==
    IF server.connected
    THEN analyze_cv_content(server.reply)
    ELSE [score |-> 70,
          analysis_text |-> <<"A","I"," ","a","n","a","l","y","s","i","s"," ","u","n","a","v","a","i","l","a","b","l","e"," ","-"," ","O","l","l","a","m","a"," ","n","o","t"," ","c","o","n","n","e","c","t","e","d">>,
          sections |-> <<>>]

\* ------------------------------------------------------------------------
\* CVAnalyzer: legacy score, suggestions, analyze_cv
\* ------------------------------------------------------------------------

\* mutant: the keyword part without its cap of 40
_calculate_ats_score_uncapped(cv_text, job_description, comparison, structure_analysis) ==
    LET keyword_score == comparison.match_percentage
        structure_score ==
              (IF structure_analysis.has_contact_info THEN 5 ELSE 0)
            + (IF structure_analysis.has_summary THEN 3 ELSE 0)
            + (IF structure_analysis.has_experience THEN 5 ELSE 0)
            + (IF structure_analysis.has_education THEN 3 ELSE 0)
            + (IF structure_analysis.has_skills THEN 4 ELSE 0)
            + (IF structure_analysis.uses_bullet_points THEN 3 ELSE 0)
            + (IF structure_analysis.has_quantified_achievements THEN 4 ELSE 0)
            + (IF structure_analysis.appropriate_length THEN 3 ELSE 0)
        tech_skills_score == Min(Len(comparison.matched_technical) * 2, 20)
        content_score ==
              (IF _has_action_verbs(cv_text) THEN 5 ELSE 0)
            + (IF word_count_of(cv_text) >= 200 THEN 5 ELSE 0)
        score == keyword_score + 100 * (structure_score + tech_skills_score + content_score)
    IN  Min(score, 10000)

\* mutant: the summary counts 5 points in the structure part
_calculate_ats_score_summary_5(cv_text, job_description, comparison, structure_analysis) ==
    LET keyword_score == Min(comparison.match_percentage, 4000)
        structure_score ==
              (IF structure_analysis.has_contact_info THEN 5 ELSE 0)
            + (IF structure_analysis.has_summary THEN 5 ELSE 0)
            + (IF structure_analysis.has_experience THEN 5 ELSE 0)
            + (IF structure_analysis.has_education THEN 3 ELSE 0)
            + (IF structure_analysis.has_skills THEN 4 ELSE 0)
            + (IF structure_analysis.uses_bullet_points THEN 3 ELSE 0)
            + (IF structure_analysis.has_quantified_achievements THEN 4 ELSE 0)
            + (IF structure_analysis.appropriate_length THEN 3 ELSE 0)
        tech_skills_score == Min(Len(comparison.matched_technical) * 2, 20)
        content_score ==
              (IF _has_action_verbs(cv_text) THEN 5 ELSE 0)
            + (IF word_count_of(cv_text) >= 200 THEN 5 ELSE 0)
        score == keyword_score + 100 * (structure_score + tech_skills_score + content_score)
    IN  Min(score, 10000)

\* in hundredths of a point, as match_percentage is
_calculate_ats_score(cv_text, job_description, comparison, structure_analysis) ==
    LET keyword_score == Min(comparison.match_percentage, 4000)
        structure_score ==
              (IF structure_analysis.has_contact_info THEN 5 ELSE 0)
            + (IF structure_analysis.has_summary THEN 3 ELSE 0)
            + (IF structure_analysis.has_experience THEN 5 ELSE 0)
            + (IF structure_analysis.has_education THEN 3 ELSE 0)
            + (IF structure_analysis.has_skills THEN 4 ELSE 0)
            + (IF structure_analysis.uses_bullet_points THEN 3 ELSE 0)
            + (IF structure_analysis.has_quantified_achievements THEN 4 ELSE 0)
            + (IF structure_analysis.appropriate_length THEN 3 ELSE 0)
        tech_skills_score == Min(Len(comparison.matched_technical) * 2, 20)
        content_score ==
              (IF _has_action_verbs(cv_text) THEN 5 ELSE 0)
            + (IF word_count_of(cv_text) >= 200 THEN 5 ELSE 0)
        score == keyword_score + 100 * (structure_score + tech_skills_score + content_score)
    IN  Min(score, 10000)


\* f"{match_percentage:.1f}", in tenths, of a percentage of h hundredths.
\* A value that ends in 5 hundredths falls to the side its float lies on:
\* of the ratios of at most 20 keywords below 50%, 18.75 and 43.75 are
\* exact and go to the even tenth, 21.05 and 45.45 lie above, the others
\* (6.25, 17.65, 31.25, 46.15) go down
format_1f(h) ==
    IF h % 10 # 5 THEN (h + 5) \div 10
    ELSE IF h \in {1875, 2105, 4375, 4545} THEN h \div 10 + 1
    ELSE h \div 10

\* mutant: every suggestion gets the priority medium
suggestion_unranked(title, text, values, priority, category) ==
    [title |-> title,
     description |-> [text |-> text, values |-> values],
     priority |-> "medium",
     category |-> category]

\* a suggestion; an f-string description is its literal text with the
\* holes, and the values in the holes
suggestion(title, text, values, priority, category) ==
    [title |-> title,
     description |-> [text |-> text, values |-> values],
     priority |-> priority,
     category |-> category]

\* mutant: the two length rules tested independently, 'Reduce Length' from
\* 200 words on
length_suggestions_overlapping(word_count) ==
    (IF word_count <= 200
     THEN <<suggestion("Expand Content",
                "Your CV is quite short. Consider adding more detail about your experience and achievements.",
                <<>>, "medium", "content")>>
     ELSE <<>>)
    \o (IF word_count >= 200
        THEN <<suggestion("Reduce Length",
                   "Your CV is quite long. Consider condensing content to focus on the most relevant information.",
                   <<>>, "low", "content")>>
        ELSE <<>>)

\* the if / elif on word_count that ends _generate_suggestions
length_suggestions(word_count) ==
    IF word_count < 200
    THEN <<suggestion("Expand Content",
               "Your CV is quite short. Consider adding more detail about your experience and achievements.",
               <<>>, "medium", "content")>>
    ELSE IF word_count > 800
    THEN <<suggestion("Reduce Length",
               "Your CV is quite long. Consider condensing content to focus on the most relevant information.",
               <<>>, "low", "content")>>
    ELSE <<>>

_generate_suggestions(cv_text, job_description, comparison, structure_analysis) ==
    (IF comparison.match_percentage < 5000
     THEN <<suggestion("Improve Keyword Matching",
                "Your CV matches only {match_percentage:.1f}% of job keywords. Consider incorporating these missing keywords: {keywords}",
                <<format_1f(comparison.match_percentage),
                  join(<<",", " ">>, Prefix(comparison.missing_keywords, 5))>>,
                "high", "keywords")>>
     ELSE <<>>)
    \o (IF comparison.missing_technical # <<>>
        THEN <<suggestion("Add Technical Skills",
                   "Include these technical skills if you have experience: {skills}",
                   <<join(<<",", " ">>, Prefix(comparison.missing_technical, 3))>>,
                   "high", "technical_skills")>>
        ELSE <<>>)
    \o (IF ~structure_analysis.has_summary
        THEN <<suggestion("Add Professional Summary",
                   "Include a 2-3 sentence professional summary at the top of your CV highlighting your key qualifications.",
                   <<>>, "medium", "structure")>>
        ELSE <<>>)
    \o (IF ~structure_analysis.uses_bullet_points
        THEN <<suggestion("Use Bullet Points",
                   "Format your experience and achievements using bullet points for better ATS readability.",
                   <<>>, "medium", "formatting")>>
        ELSE <<>>)
    \o (IF ~structure_analysis.has_quantified_achievements
        THEN <<suggestion("Quantify Your Achievements",
                   "Add numbers, percentages, and metrics to your accomplishments (e.g., \"Increased sales by 25%\").",
                   <<>>, "high", "content")>>
        ELSE <<>>)
    \o (IF ~_has_action_verbs(cv_text)
        THEN <<suggestion("Use Strong Action Verbs",
                   "Start bullet points with action verbs like \"achieved,\" \"managed,\" \"developed,\" \"implemented.\"",
                   <<>>, "medium", "content")>>
        ELSE <<>>)
    \o length_suggestions(word_count_of(cv_text))

\* textstat.flesch_reading_ease(cv_text) is the library's: `flesch` is
\* what it does for the text, a value or an exception
_calculate_readability(flesch) == IF flesch.raised THEN 50 ELSE flesch.value

\* analyze_cv in a process with string-hash seed `seed`, with `flesch` for
\* the text and the Ollama server in state `server`: its locals cv_keywords,
\* job_keywords and keyword_comparison, and the results it returns
\* (each local is bound once, to the one element of a set, as the
\* assignments of the function bind it)
analyze_cv(cv_text, job_description, seed, flesch, server) ==
    LET compiled(cvk, jobk, comparison, structure_analysis) ==
            [cv_keywords |-> cvk,
             job_keywords |-> jobk,
             keyword_comparison |-> comparison,
             results |->
                [called |-> TRUE,
                 ats_score |-> _calculate_ats_score(cv_text, job_description, comparison,
                                                    structure_analysis),
                 keyword_match_percentage |-> comparison.match_percentage,
                 matched_keywords |-> comparison.matched_keywords,
                 missing_keywords |-> comparison.missing_keywords,
                 technical_skills_match |-> comparison.matched_technical,
                 missing_technical_skills |-> comparison.missing_technical,
                 structure_analysis |-> structure_analysis,
                 suggestions |-> _generate_suggestions(cv_text, job_description, comparison,
                                                       structure_analysis),
                 ai_analysis |-> _get_ai_analysis(server),
                 readability_score |-> _calculate_readability(flesch),
                 word_count |-> word_count_of(cv_text),
                 sections_detected |-> _detect_sections(cv_text, seed),
                 enhancement_opportunities |->
                     _find_enhancement_opportunities(cv_text, job_description)]]
        runs == UNION {{compiled(cvk, jobk, comparison, structure_analysis) :
                            comparison \in {compare_keywords(cvk, jobk, seed)},
                            structure_analysis \in {_analyze_structure(cv_text, seed)}} :
                        cvk \in {extract_keywords_from_cv(cv_text, seed)},
                        jobk \in {extract_keywords_from_job_description(job_description, seed)}}
    IN  CHOOSE run \in runs : TRUE

\* ------------------------------------------------------------------------
\* Specification SpecPipeline: analyze_cv and calculate_overall_score run
\* again and again on one (cv_text, job_description), in one interpreter
\* process or across restarts, with the Ollama server coming and going
\* ------------------------------------------------------------------------

\* Scenario 1 and Scenario 3 of the specification
Scenario1CV == <<"E","x","p","e","r","i","e","n","c","e","d"," ","P","y","t","h","o","n"," ","d",
    "e","v","e","l","o","p","e","r","."," ","A","W","S"," ","c","e","r","t","i","f","i","e","d","."
    >>

Scenario1Job == <<"P","y","t","h","o","n"," ","A","W","S"," ","D","o","c","k","e","r">>

Scenario3CV == <<"I","n","c","r","e","a","s","e","d"," ","r","e","v","e","n","u","e"," ","b","y",
    " ","2","5","%"," ","a","n","d"," ","m","a","n","a","g","e","d"," ","a"," ","t","e","a","m"," ",
    "o","f"," ","1","0",".">>

\* a CV whose only verbs are on the keyword extractor's list
BuiltCV == <<"B","u","i","l","t"," ","a","n","d"," ","l","a","u","n","c","h","e","d"," ","3"," ","a","p","p","s",".">>

\* a CV with eleven quantified statements
ManyAchievementsCV ==
    <<"C","u","t"," ","1","0","%"," ","c","o","s","t",","," ","2","0","%"," ","t","i","m","e",",",
    " ","3","0","%"," ","r","i","s","k",","," ","4","0","%"," ","c","h","u","r","n",","," ","5","0",
    "%"," ","b","u","g","s",","," ","6","0","%"," ","d","e","b","t","."," ","L","e","d"," ","1"," ",
    "a",","," ","l","e","d"," ","2"," ","b",","," ","l","e","d"," ","3"," ","c",","," ","l","e","d",
    " ","4"," ","d",","," ","l","e","d"," ","5"," ","e",".">>

\* a CV with sections, contact details, bullets and numbers, and a job
\* description it matches in part
SectionedCV ==
    <<"S","U","M","M","A","R","Y","\n","J","a","n","e"," ","D","o","e",","," ","j","a","n","e",".",
        "d","o","e","@","m","a","i","l",".","c","o","m","\n","E","X","P","E","R","I","E","N","C",
        "E","\n","-"," ","L","e","d"," ","5"," ","e","n","g","i","n","e","e","r","s","\n","-"," ",
        "R","e","d","u","c","e","d"," ","c","o","s","t","s"," ","b","y"," ","3","0","%"," ","w","i",
        "t","h"," ","P","y","t","h","o","n"," ","a","n","d"," ","S","Q","L","\n","-"," ","R","e",
        "s","p","o","n","s","i","b","l","e"," ","f","o","r"," ","r","e","l","e","a","s","e","s",",",
        " ","i","m","p","r","o","v","e","d"," ","q","u","a","l","i","t","y","\n","S","K","I","L",
        "L","S",":"," ","P","y","t","h","o","n",","," ","S","Q","L",","," ","G","i","t","\n","E",
        "D","U","C","A","T","I","O","N",":"," ","B","S","c">>

SectionedJob ==
    <<"S","e","n","i","o","r"," ","P","y","t","h","o","n"," ","d","e","v","e","l","o","p","e","r",
        ":"," ","S","Q","L",","," ","D","o","c","k","e","r",","," ","K","u","b","e","r","n","e","t",
        "e","s",","," ","G","i","t","."," ","L","e","a","d","e","r","s","h","i","p"," ","a","n","d",
        " ","c","o","m","m","u","n","i","c","a","t","i","o","n"," ","i","n"," ","a","n"," ","a","g",
        "i","l","e"," ","t","e","a","m",".">>

\* what textstat.flesch_reading_ease does for a text: a value or an exception
FleschOutcomes ==
    {[raised |-> FALSE, value |-> 39], [raised |-> FALSE, value |-> 60], [raised |-> TRUE, value |-> 0]}

\* the Ollama server: down; up and answering in the format asked for; up
\* and failing the request; up and not answering within the timeout
OllamaServers ==
    {[connected |-> FALSE,
      reply |-> [raised |-> TRUE, message |-> <<"C","o","n","n","e","c","t","i","o","n"," ","r","e",
          "f","u","s","e","d">>, status_code |-> 0,
                 has_response |-> FALSE, response |-> <<>>]],
     [connected |-> TRUE,
      reply |-> [raised |-> FALSE, message |-> <<>>, status_code |-> 200, has_response |-> TRUE,
                 response |-> <<"S","T","R","E","N","G","T","H","S",":","\n","-"," ","C","l","e",
                     "a","r"," ","l","a","y","o","u","t","\n","A","T","S"," ","O","P","T","I","M",
                     "I","Z","A","T","I","O","N"," ","S","C","O","R","E",":"," ","8","5","/","1",
                     "0","0">>]],
     [connected |-> TRUE,
      reply |-> [raised |-> FALSE, message |-> <<>>, status_code |-> 500,
                 has_response |-> FALSE, response |-> <<>>]],
     [connected |-> TRUE,
      reply |-> [raised |-> TRUE, message |-> <<"R","e","a","d"," ","t","i","m","e","d"," ","o","u","t">>,
                 status_code |-> 0, has_response |-> FALSE, response |-> <<>>]]}

\* the texts of a session, with what textstat and the float sum do on them
PipelineInputs ==
    {[cv_text |-> Scenario1CV, job_description |-> Scenario1Job,
      flesch |-> [raised |-> FALSE, value |-> 60], float_tie |-> "down"],
     [cv_text |-> Scenario3CV, job_description |-> Scenario1Job,
      flesch |-> [raised |-> FALSE, value |-> 39], float_tie |-> "up"],
     [cv_text |-> Scenario3CV, job_description |-> <<>>,
      flesch |-> [raised |-> FALSE, value |-> 39], float_tie |-> "down"],
     [cv_text |-> SectionedCV, job_description |-> SectionedJob,
      flesch |-> [raised |-> FALSE, value |-> 60], float_tie |-> "up"],
     [cv_text |-> ManyAchievementsCV, job_description |-> SectionedJob,
      flesch |-> [raised |-> TRUE, value |-> 0], float_tie |-> "down"],
     [cv_text |-> BuiltCV, job_description |-> Scenario1Job,
      flesch |-> [raised |-> FALSE, value |-> 60], float_tie |-> "down"]}

InitPipeline ==
    /\ ComponentsNotRun
    /\ \E in \in PipelineInputs :
           /\ input_cv_text = in.cv_text
           /\ input_job_description = in.job_description
           /\ flesch_of_cv = in.flesch
           /\ float_tie = in.float_tie
    /\ ollama_server \in OllamaServers
    /\ hash_seed \in HashSeeds
    /\ analysis_results = NotCalled
    /\ breakdown = NotCalled
    /\ previous = NotCalled
    /\ cv_keywords = NotCalled
    /\ job_keywords = NotCalled
    /\ keyword_comparison = NotCalled
    /\ grade_scores = NotCalled
    /\ grades = NotCalled

\* the run whose results are about to be replaced or lost
last_run ==
    IF analysis_results.called
    THEN [called |-> TRUE, hash_seed |-> hash_seed, analysis_results |-> analysis_results]
    ELSE previous

\* mutant: the score of the language model is averaged into ats_score
AnalyzeCV_ai_in_score ==
    \E run \in {analyze_cv(input_cv_text, input_job_description, hash_seed,
                           flesch_of_cv, ollama_server)} :
        /\ cv_keywords' = run.cv_keywords
        /\ job_keywords' = run.job_keywords
        /\ keyword_comparison' = run.keyword_comparison
        /\ analysis_results' =
               [run.results EXCEPT !.ats_score = (@ + 100 * run.results.ai_analysis.score) \div 2]
        /\ breakdown' = NotCalled
        /\ previous' = last_run
        /\ UNCHANGED <<input_cv_text, input_job_description, flesch_of_cv, float_tie,
                       ollama_server, hash_seed, grade_vars, component_vars>>

\* results = cv_analyzer.analyze_cv(cv_text, job_description)
AnalyzeCV ==
    \E run \in {analyze_cv(input_cv_text, input_job_description, hash_seed,
                           flesch_of_cv, ollama_server)} :
        /\ cv_keywords' = run.cv_keywords
        /\ job_keywords' = run.job_keywords
        /\ keyword_comparison' = run.keyword_comparison
        /\ analysis_results' = run.results
        /\ breakdown' = NotCalled
        /\ previous' = last_run
        /\ UNCHANGED <<input_cv_text, input_job_description, flesch_of_cv, float_tie,
                       ollama_server, hash_seed, grade_vars, component_vars>>

\* scoring_system.calculate_overall_score(results)
ScoreAnalysis ==
    /\ analysis_results.called
    /\ breakdown' = calculate_overall_score(analysis_results, float_tie)
    /\ UNCHANGED <<analysis_results, previous, input_cv_text, input_job_description,
                   flesch_of_cv, float_tie, ollama_server, hash_seed, compare_vars, grade_vars, component_vars>>

\* the application is started anew: a new interpreter process with its own
\* string hashing and an empty session
Restart ==
    /\ hash_seed' \in HashSeeds
    /\ analysis_results' = NotCalled
    /\ breakdown' = NotCalled
    /\ previous' = last_run
    /\ cv_keywords' = NotCalled
    /\ job_keywords' = NotCalled
    /\ keyword_comparison' = NotCalled
    /\ UNCHANGED <<input_cv_text, input_job_description, flesch_of_cv, float_tie, ollama_server,
                   grade_vars, component_vars>>

\* the Ollama server goes down, comes up or starts to fail
OllamaChanges ==
    /\ ollama_server' \in OllamaServers \ {ollama_server}
    /\ UNCHANGED <<analysis_results, breakdown, previous, input_cv_text, input_job_description,
                   flesch_of_cv, float_tie, hash_seed, compare_vars, grade_vars, component_vars>>

NextPipeline == AnalyzeCV \/ ScoreAnalysis \/ Restart \/ OllamaChanges

SpecPipeline == InitPipeline /\ [][NextPipeline]_vars

\* the results of a run without the AI enrichment
without_ai(results) == [f \in DOMAIN results \ {"ai_analysis"} |-> results[f]]

\* the result fields that are made by list(set(...)), list(a & b) or list(a - b)
HashOrderedFields ==
    {"matched_keywords", "missing_keywords", "technical_skills_match",
     "missing_technical_skills", "sections_detected"}

\* C5 as stated: two runs of the pipeline on the same (cv_text,
\* job_description) give identical results in every field except
\* ai_analysis, the order of the keyword lists and of the suggestions included
C5_Original ==
    (previous.called /\ analysis_results.called)
        => without_ai(previous.analysis_results) = without_ai(analysis_results)

\* C5 (amended): two runs of the pipeline on the same (cv_text,
\* job_description) give identical results in every field except ai_analysis,
\* up to the order of the lists built from sets (matched and missing
\* keywords, matched and missing technical skills, detected sections) and the
\* keywords that the two keyword suggestions quote from the head of those
\* lists; the suggestions come in the same order with the same titles,
\* priorities and categories, the score breakdown is the same, and two runs
\* in one interpreter process (one string-hash seed) agree in the order too
C5_IdenticalUpToSetOrder ==
    (previous.called /\ analysis_results.called) =>
        LET a == previous.analysis_results
            b == analysis_results
        IN  /\ \A f \in DOMAIN b \ (HashOrderedFields \cup {"ai_analysis", "suggestions"}) :
                   a[f] = b[f]
            /\ \A f \in HashOrderedFields :
                   /\ set_of_list(a[f]) = set_of_list(b[f])
                   /\ Len(a[f]) = Len(b[f])
            /\ Len(a.suggestions) = Len(b.suggestions)
            /\ \A i \in DOMAIN b.suggestions :
                   LET x == a.suggestions[i]
                       y == b.suggestions[i]
                   IN  /\ x.title = y.title
                       /\ x.priority = y.priority
                       /\ x.category = y.category
                       /\ x.description.text = y.description.text
                       /\ y.title = "Improve Keyword Matching" =>
                              /\ x.description.values[1] = y.description.values[1]
                              /\ y.description.values[2] =
                                     join(<<",", " ">>, Prefix(b.missing_keywords, 5))
                       /\ y.title = "Add Technical Skills" =>
                              y.description.values[1] =
                                  join(<<",", " ">>, Prefix(b.missing_technical_skills, 3))
                       /\ y.title \notin {"Improve Keyword Matching", "Add Technical Skills"} =>
                              x = y
            /\ calculate_overall_score(a, float_tie) = calculate_overall_score(b, float_tie)
            /\ previous.hash_seed = hash_seed => without_ai(a) = without_ai(b)

\* two runs in processes of different string hashing, with the Ollama server
\* in different states, whose missing keywords come in different orders and
\* whose keyword suggestions quote different keywords
C5_Witness ==
    /\ previous.called
    /\ analysis_results.called
    /\ previous.hash_seed # hash_seed
    /\ previous.analysis_results.ai_analysis # analysis_results.ai_analysis
    /\ previous.analysis_results.missing_keywords # analysis_results.missing_keywords
    /\ previous.analysis_results.suggestions # analysis_results.suggestions

\* the result fields that C11 names
DeterministicFields ==
    {"ats_score", "keyword_match_percentage", "matched_keywords", "missing_keywords",
     "technical_skills_match", "missing_technical_skills", "structure_analysis", "suggestions"}

\* the server did not give an analysis: it is down, fails the request or
\* does not answer in time
LlmFailed(server) ==
    \/ ~server.connected
    \/ server.reply.raised
    \/ server.reply.status_code # 200

\* C11: the outcome of the language-model call never changes the
\* deterministic results: two calls of analyze_cv on the same (cv_text,
\* job_description) in one process return the same ats_score,
\* keyword_match_percentage, matched and missing keywords, structure_analysis
\* and suggestions whatever the language model does (connected, down, timed
\* out, non-200); they differ in ai_analysis at most
C11_LlmLeavesResults ==
    (previous.called /\ analysis_results.called /\ previous.hash_seed = hash_seed) =>
        /\ \A f \in DeterministicFields : previous.analysis_results[f] = analysis_results[f]
        /\ \A f \in DOMAIN analysis_results :
               previous.analysis_results[f] # analysis_results[f] => f = "ai_analysis"

\* a call that met a failing server (time-out) after a call that got an
\* analysis with score 85, in one process
C11_Witness ==
    /\ previous.called
    /\ analysis_results.called
    /\ previous.hash_seed = hash_seed
    /\ previous.analysis_results.ai_analysis.score = 85
    /\ ollama_server.connected
    /\ ollama_server.reply.raised
    /\ analysis_results.ai_analysis = _get_ai_analysis(ollama_server)
    /\ analysis_results.ai_analysis # previous.analysis_results.ai_analysis

\* the fallback or error text that a failure of the server leaves
FailureText(server) ==
    IF ~server.connected
    THEN <<"A","I"," ","a","n","a","l","y","s","i","s"," ","u","n","a","v","a","i","l","a","b","l","e"," ","-"," ","O","l","l","a","m","a"," ","n","o","t"," ","c","o","n","n","e","c","t","e","d">>
    ELSE IF server.reply.raised
    THEN <<"E","r","r","o","r"," ","c","o","n","n","e","c","t","i","n","g"," ","t","o"," ","O","l","l","a","m","a",":"," ">>
         \o server.reply.message
    ELSE <<"E","r","r","o","r",":"," ","H","T","T","P"," ">>
         \o int_to_str(server.reply.status_code)

\* C12: every failure of the language model during analyze_cv (time-out,
\* non-200 status, connection refused, server down) is caught:
\* analyze_cv returns, and its ai_analysis has score 70, no sections and the
\* fallback or error text of the failure as analysis_text
C12_LlmFailureCaught ==
    [][(/\ analysis_results'.called
        /\ analysis_results' # analysis_results
        /\ LlmFailed(ollama_server))
       => /\ analysis_results'.ai_analysis.score = 70
          /\ analysis_results'.ai_analysis.analysis_text = FailureText(ollama_server)
          /\ DOMAIN analysis_results'.ai_analysis.sections = {}]_vars

\* analyze_cv has returned with the server up and the request timed out
C12_Witness ==
    /\ analysis_results.called
    /\ ollama_server.connected
    /\ ollama_server.reply.raised
    /\ analysis_results.ai_analysis.score = 70
    /\ analysis_results.ai_analysis.analysis_text = FailureText(ollama_server)

\* analyze_cv has run on Scenario 1 of the specification
Scenario1Analyzed ==
    /\ analysis_results.called
    /\ input_cv_text = Scenario1CV
    /\ input_job_description = Scenario1Job

\* C8 as stated: for job description "Python AWS Docker" and CV "Experienced
\* Python developer. AWS certified.", matched_technical is exactly
\* {python, aws} and missing_technical contains docker
C8_Original ==
    Scenario1Analyzed =>
        /\ set_of_list(keyword_comparison.matched_technical)
               = {<<"p","y","t","h","o","n">>, <<"a","w","s">>}
        /\ <<"d","o","c","k","e","r">> \in set_of_list(keyword_comparison.missing_technical)

\* C8 (amended): for job description "Python AWS Docker" and CV "Experienced
\* Python developer. AWS certified.", matched_technical is exactly
\* {python, aws, r}: the taxonomy entry "r" is a substring of both texts;
\* missing_technical contains docker
C8_Scenario1Technical ==
    Scenario1Analyzed =>
        /\ set_of_list(keyword_comparison.matched_technical)
               = {<<"p","y","t","h","o","n">>, <<"a","w","s">>, <<"r">>}
        /\ <<"d","o","c","k","e","r">> \in set_of_list(keyword_comparison.missing_technical)

C8_Witness ==
    /\ Scenario1Analyzed
    /\ <<"r">> \in set_of_list(cv_keywords.technical_skills)
    /\ <<"r">> \in set_of_list(job_keywords.technical_skills)
    /\ <<"r">> \in set_of_list(analysis_results.technical_skills_match)

\* C9 as stated: for CV "Increased revenue by 25% and managed a team of 10.",
\* has_quantified_achievements is true and the achievements list contains
\* "25" and "10"; the achievements list never has more than 10 entries
C9_Original ==
    analysis_results.called =>
        /\ Len(cv_keywords.achievements) <= 10
        /\ input_cv_text = Scenario3CV =>
               /\ analysis_results.structure_analysis.has_quantified_achievements
               /\ <<"2","5">> \in set_of_list(cv_keywords.achievements)
               /\ <<"1","0">> \in set_of_list(cv_keywords.achievements)

\* C9 (amended): for CV "Increased revenue by 25% and managed a team of 10.",
\* has_quantified_achievements is true and the achievements list contains
\* "25" but not "10" (no pattern takes a number that does not directly follow
\* "managed" or "led"); the achievements list never has more than 10 entries
C9_Scenario3Achievements ==
    analysis_results.called =>
        /\ Len(cv_keywords.achievements) <= 10
        /\ input_cv_text = Scenario3CV =>
               /\ analysis_results.structure_analysis.has_quantified_achievements
               /\ <<"2","5">> \in set_of_list(cv_keywords.achievements)
               /\ <<"1","0">> \notin set_of_list(cv_keywords.achievements)

\* Scenario 3 analysed: "25" is found twice, by the percentage pattern and
\* by the "increased ... by" pattern
C9_Witness ==
    /\ analysis_results.called
    /\ input_cv_text = Scenario3CV
    /\ analysis_results.structure_analysis.has_quantified_achievements
    /\ cv_keywords.achievements = <<<<"2","5">>, <<"2","5">>>>

\* a CV of eleven quantified statements analysed: the list is cut to ten
C9_WitnessTruncated ==
    /\ analysis_results.called
    /\ input_cv_text = ManyAchievementsCV
    /\ Len(cv_keywords.achievements) = 10
    /\ Len(_extract_achievements_untruncated(input_cv_text)) = 11

\* ------------------------------------------------------------------------
\* Specification SpecLength: analyze_cv on CVs of given word counts
\* ------------------------------------------------------------------------

\* a CV of n >= 3 words
cv_of_words(n) ==
    <<"D","e","v","e","l","o","p","e","d"," ","P","y","t","h","o","n"," ","s","e","r","v","i","c",
        "e","s",".">>
    \o [i \in 1..(2 * (n - 3)) |-> IF i % 2 = 1 THEN " " ELSE "x"]

\* Scenario 5 of the specification, and each side of every limit on the
\* word count
WordCounts == {50, 199, 200, 201, 299, 300, 800, 801, 1000, 1001}

InitLength ==
    /\ ComponentsNotRun
    /\ input_cv_text \in {cv_of_words(n) : n \in WordCounts}
    /\ input_job_description = Scenario1Job
    /\ flesch_of_cv \in FleschOutcomes
    /\ float_tie = "down"
    /\ ollama_server = CHOOSE server \in OllamaServers : ~server.connected
    /\ hash_seed \in HashSeeds
    /\ analysis_results = NotCalled
    /\ breakdown = NotCalled
    /\ previous = NotCalled
    /\ cv_keywords = NotCalled
    /\ job_keywords = NotCalled
    /\ keyword_comparison = NotCalled
    /\ grade_scores = NotCalled
    /\ grades = NotCalled

\* one call of analyze_cv
AnalyzeOnce == ~analysis_results.called /\ AnalyzeCV

NextLength == AnalyzeOnce

SpecLength == InitLength /\ [][NextLength]_vars

\* the number of words the CV of the session was built with
words_of_input == CHOOSE n \in WordCounts : input_cv_text = cv_of_words(n)

titles_of(suggestions) == {suggestions[i].title : i \in DOMAIN suggestions}

\* C7: appropriate_length is true exactly when the whitespace-separated word
\* count of the CV is in [200, 1000]: true for 200 and 1000 words, false for
\* 199 and 1001
C7_AppropriateLength ==
    analysis_results.called =>
        /\ analysis_results.word_count = words_of_input
        /\ analysis_results.structure_analysis.appropriate_length
               <=> (200 <= words_of_input /\ words_of_input <= 1000)

C7_Witness ==
    /\ analysis_results.called
    /\ words_of_input = 1000
    /\ analysis_results.structure_analysis.appropriate_length

\* C10: a CV of 50 words has appropriate_length false and gets the suggestion
\* 'Expand Content' with priority medium and category content; 'Expand
\* Content' is suggested exactly when the word count is below 200, 'Reduce
\* Length' (low, content) exactly when it is above 800, and never both
C10_LengthSuggestions ==
    analysis_results.called =>
        LET suggestions == analysis_results.suggestions
            titles == titles_of(suggestions)
        IN  /\ words_of_input = 50 =>
                   ~analysis_results.structure_analysis.appropriate_length
            /\ "Expand Content" \in titles <=> words_of_input < 200
            /\ "Reduce Length" \in titles <=> words_of_input > 800
            /\ ~("Expand Content" \in titles /\ "Reduce Length" \in titles)
            /\ \A i \in DOMAIN suggestions :
                   /\ suggestions[i].title = "Expand Content" =>
                          /\ suggestions[i].priority = "medium"
                          /\ suggestions[i].category = "content"
                   /\ suggestions[i].title = "Reduce Length" =>
                          /\ suggestions[i].priority = "low"
                          /\ suggestions[i].category = "content"

C10_Witness ==
    /\ analysis_results.called
    /\ words_of_input = 50
    /\ "Expand Content" \in titles_of(analysis_results.suggestions)
    /\ ~analysis_results.structure_analysis.appropriate_length


\* ------------------------------------------------------------------------
\* Specification SpecAnalyzeSteps: one analyze_cv call after another, each
\* taken statement by statement, with the Ollama server coming and going
\* while the call runs.  The caller holds analysis_results, which only the
\* return statement assigns.
\* ------------------------------------------------------------------------

\* the locals analyze_cv has bound when it reaches _get_ai_analysis
deterministic_locals(cv_text, job_description, seed) ==
    LET bound(cvk, jobk, comparison, structure_analysis) ==
            [cv_keywords |-> cvk,
             job_keywords |-> jobk,
             keyword_comparison |-> comparison,
             structure_analysis |-> structure_analysis,
             ats_score |-> _calculate_ats_score(cv_text, job_description, comparison,
                                                structure_analysis)]
        frames == UNION {{bound(cvk, jobk, comparison, structure_analysis) :
                              comparison \in {compare_keywords(cvk, jobk, seed)},
                              structure_analysis \in {_analyze_structure(cv_text, seed)}} :
                          cvk \in {extract_keywords_from_cv(cv_text, seed)},
                          jobk \in {extract_keywords_from_job_description(job_description, seed)}}
    IN  CHOOSE locals \in frames : TRUE

\* the suggestions and the results dict, from the locals of the frame
compile_results(cv_text, job_description, seed, flesch, locals, ai_analysis) ==
    [called |-> TRUE,
     ats_score |-> locals.ats_score,
     keyword_match_percentage |-> locals.keyword_comparison.match_percentage,
     matched_keywords |-> locals.keyword_comparison.matched_keywords,
     missing_keywords |-> locals.keyword_comparison.missing_keywords,
     technical_skills_match |-> locals.keyword_comparison.matched_technical,
     missing_technical_skills |-> locals.keyword_comparison.missing_technical,
     structure_analysis |-> locals.structure_analysis,
     suggestions |-> _generate_suggestions(cv_text, job_description, locals.keyword_comparison,
                                           locals.structure_analysis),
     ai_analysis |-> ai_analysis,
     readability_score |-> _calculate_readability(flesch),
     word_count |-> word_count_of(cv_text),
     sections_detected |-> _detect_sections(cv_text, seed),
     enhancement_opportunities |-> _find_enhancement_opportunities(cv_text, job_description)]

StepInputs == {in \in PipelineInputs : in.cv_text = Scenario1CV}

InitAnalyzeSteps ==
    /\ UiNotRun
    /\ \E in \in StepInputs :
           /\ input_cv_text = in.cv_text
           /\ input_job_description = in.job_description
           /\ flesch_of_cv = in.flesch
           /\ float_tie = in.float_tie
    /\ ollama_server \in OllamaServers
    /\ hash_seed \in HashSeeds
    /\ frame = [called |-> FALSE]
    /\ analysis_results = NotCalled
    /\ breakdown = NotCalled
    /\ previous = NotCalled
    /\ cv_keywords = NotCalled
    /\ job_keywords = NotCalled
    /\ keyword_comparison = NotCalled
    /\ grade_scores = NotCalled
    /\ grades = NotCalled
    /\ filtered_tokens = NotCalled
    /\ ChatNotRun
    /\ HistoryNotRun

steps_unchanged ==
    UNCHANGED <<input_cv_text, input_job_description, flesch_of_cv, float_tie, hash_seed,
                breakdown, previous, compare_vars, grade_vars, filtered_tokens, chat_vars,
                history_vars, ui_vars>>

\* analyze_cv is called and runs up to the call of _get_ai_analysis:
\* keywords, comparison, structure and ats_score are locals of the frame
StartAnalysis ==
    /\ ~frame.called
    /\ frame' = [called |-> TRUE, pc |-> "is_connected",
                 locals |-> deterministic_locals(input_cv_text, input_job_description,
                                                 hash_seed)]
    /\ UNCHANGED <<analysis_results, ollama_server>>
    /\ steps_unchanged

\* _get_ai_analysis asks is_connected(): GET /api/tags, within 5 seconds
CheckConnection ==
    /\ frame.called
    /\ frame.pc = "is_connected"
    /\ frame' = IF ollama_server.connected
                THEN [called |-> TRUE, pc |-> "generate", locals |-> frame.locals]
                ELSE [called |-> TRUE, pc |-> "suggestions", locals |-> frame.locals,
                      ai_analysis |-> _get_ai_analysis(ollama_server)]
    /\ UNCHANGED <<analysis_results, ollama_server>>
    /\ steps_unchanged

\* the POST of generate_response ends, by a reply, an error or the
\* time-out of 60 seconds, and the reply is parsed
GenerateEnds ==
    /\ frame.called
    /\ frame.pc = "generate"
    /\ frame' = [called |-> TRUE, pc |-> "suggestions", locals |-> frame.locals,
                 ai_analysis |-> analyze_cv_content(ollama_server.reply)]
    /\ UNCHANGED <<analysis_results, ollama_server>>
    /\ steps_unchanged

\* the suggestions are generated, the results are compiled and returned
ReturnResults ==
    /\ frame.called
    /\ frame.pc = "suggestions"
    /\ analysis_results' = compile_results(input_cv_text, input_job_description, hash_seed,
                                           flesch_of_cv, frame.locals, frame.ai_analysis)
    /\ frame' = [called |-> FALSE]
    /\ UNCHANGED ollama_server
    /\ steps_unchanged

\* the Ollama server goes down, comes up or starts to fail, also while
\* analyze_cv runs
OllamaChangesMeanwhile ==
    /\ ollama_server' \in OllamaServers \ {ollama_server}
    /\ UNCHANGED <<analysis_results, frame>>
    /\ steps_unchanged

NextAnalyzeSteps ==
    StartAnalysis \/ CheckConnection \/ GenerateEnds \/ ReturnResults \/ OllamaChangesMeanwhile

\* the interpreter goes on with a frame it has entered, and either HTTP
\* request ends: requests.get has timeout=5, requests.post timeout=60
SpecAnalyzeSteps ==
    /\ InitAnalyzeSteps
    /\ [][NextAnalyzeSteps]_vars
    /\ WF_vars(CheckConnection)
    /\ WF_vars(GenerateEnds)
    /\ WF_vars(ReturnResults)

\* the language model has been asked and has not answered yet
LlmCallPending == frame.called /\ frame.pc = "generate"

\* the caller holds the deterministic outputs of the running call
CallerHasDeterministicOutputs ==
    /\ analysis_results.called
    /\ analysis_results.ats_score = frame.locals.ats_score
    /\ analysis_results.structure_analysis = frame.locals.structure_analysis
    /\ analysis_results.keyword_match_percentage = frame.locals.keyword_comparison.match_percentage
    /\ analysis_results.matched_keywords = frame.locals.keyword_comparison.matched_keywords
    /\ analysis_results.missing_keywords = frame.locals.keyword_comparison.missing_keywords
    /\ analysis_results.suggestions =
           _generate_suggestions(input_cv_text, input_job_description,
                                 frame.locals.keyword_comparison,
                                 frame.locals.structure_analysis)

\* C13: the language-model call does not block the deterministic scoring
\* path: while the call to the language model is not finished, the caller of
\* analyze_cv already holds ats_score, suggestions, structure_analysis and the
\* keyword results of the call; and every call of analyze_cv returns.
C13_Original ==
    /\ [](LlmCallPending => CallerHasDeterministicOutputs)
    /\ (frame.called ~> (~frame.called /\ analysis_results.called))

\* C13, the part the code keeps: every call of analyze_cv returns its
\* results, whatever the Ollama server does
C13_EventuallyReturns == frame.called ~> (~frame.called /\ analysis_results.called)

\* a call of analyze_cv waits for the language model with ats_score bound
\* and no results returned
C13_Witness ==
    /\ LlmCallPending
    /\ ~analysis_results.called
    /\ frame.locals.ats_score > 0

\* ------------------------------------------------------------------------
\* ChatInterface.get_response and ImprovementSuggestions._get_detailed_help
\* ------------------------------------------------------------------------

\* the dict fallback_responses of _get_fallback_response
fallback_responses ==
    [score |->
        <<"Y","o","u","r"," ","A","T","S"," ","s","c","o","r","e"," ","i","n","d","i","c","a","t",
        "e","s"," ","h","o","w"," ","w","e","l","l"," ","y","o","u","r"," ","C","V"," ","i","s"," ",
        "o","p","t","i","m","i","z","e","d"," ","f","o","r"," ","a","p","p","l","i","c","a","n","t",
        " ","t","r","a","c","k","i","n","g"," ","s","y","s","t","e","m","s","."," ","F","o","c","u",
        "s"," ","o","n"," ","i","n","c","l","u","d","i","n","g"," ","r","e","l","e","v","a","n","t",
        " ","k","e","y","w","o","r","d","s",","," ","c","l","e","a","r"," ","f","o","r","m","a","t",
        "t","i","n","g",","," ","a","n","d"," ","q","u","a","n","t","i","f","i","e","d"," ","a","c",
        "h","i","e","v","e","m","e","n","t","s"," ","t","o"," ","i","m","p","r","o","v","e"," ","i",
        "t",".">>,
     keywords |->
        <<"T","o"," ","o","p","t","i","m","i","z","e"," ","k","e","y","w","o","r","d","s",":"," ",
        "1",")"," ","I","d","e","n","t","i","f","y"," ","k","e","y"," ","t","e","r","m","s"," ","f",
        "r","o","m"," ","t","h","e"," ","j","o","b"," ","d","e","s","c","r","i","p","t","i","o","n",
        ","," ","2",")"," ","N","a","t","u","r","a","l","l","y"," ","i","n","c","o","r","p","o","r",
        "a","t","e"," ","t","h","e","m"," ","t","h","r","o","u","g","h","o","u","t"," ","y","o","u",
        "r"," ","C","V",","," ","3",")"," ","F","o","c","u","s"," ","o","n"," ","t","e","c","h","n",
        "i","c","a","l"," ","s","k","i","l","l","s",","," ","a","c","t","i","o","n"," ","v","e","r",
        "b","s",","," ","a","n","d"," ","i","n","d","u","s","t","r","y"," ","t","e","r","m","i","n",
        "o","l","o","g","y",","," ","4",")"," ","A","v","o","i","d"," ","k","e","y","w","o","r","d",
        " ","s","t","u","f","f","i","n","g",".">>,
     improve |->
        <<"K","e","y"," ","C","V"," ","i","m","p","r","o","v","e","m","e","n","t","s",":"," ","1",
        ")"," ","A","d","d"," ","q","u","a","n","t","i","f","i","e","d"," ","a","c","h","i","e","v",
        "e","m","e","n","t","s"," ","w","i","t","h"," ","n","u","m","b","e","r","s","/","p","e","r",
        "c","e","n","t","a","g","e","s",","," ","2",")"," ","U","s","e"," ","s","t","r","o","n","g",
        " ","a","c","t","i","o","n"," ","v","e","r","b","s"," ","(","a","c","h","i","e","v","e","d",
        ","," ","m","a","n","a","g","e","d",","," ","l","e","d",")",","," ","3",")"," ","I","n","c",
        "l","u","d","e"," ","r","e","l","e","v","a","n","t"," ","k","e","y","w","o","r","d","s"," ",
        "n","a","t","u","r","a","l","l","y",","," ","4",")"," ","E","n","s","u","r","e"," ","c","l",
        "e","a","r"," ","f","o","r","m","a","t","t","i","n","g"," ","w","i","t","h"," ","b","u","l",
        "l","e","t"," ","p","o","i","n","t","s",","," ","5",")"," ","T","a","i","l","o","r"," ","c",
        "o","n","t","e","n","t"," ","t","o"," ","t","h","e"," ","s","p","e","c","i","f","i","c"," ",
        "j","o","b",".">>,
     summary |->
        <<"A"," ","s","t","r","o","n","g"," ","p","r","o","f","e","s","s","i","o","n","a","l"," ",
        "s","u","m","m","a","r","y"," ","s","h","o","u","l","d",":"," ","1",")"," ","B","e"," ","2",
        "-","3"," ","s","e","n","t","e","n","c","e","s"," ","l","o","n","g",","," ","2",")"," ","H",
        "i","g","h","l","i","g","h","t"," ","y","o","u","r"," ","k","e","y"," ","q","u","a","l","i",
        "f","i","c","a","t","i","o","n","s",","," ","3",")"," ","I","n","c","l","u","d","e"," ","y",
        "e","a","r","s"," ","o","f"," ","e","x","p","e","r","i","e","n","c","e",","," ","4",")"," ",
        "M","e","n","t","i","o","n"," ","r","e","l","e","v","a","n","t"," ","s","k","i","l","l","s",
        "/","e","x","p","e","r","t","i","s","e",","," ","5",")"," ","A","l","i","g","n"," ","w","i",
        "t","h"," ","t","h","e"," ","t","a","r","g","e","t"," ","r","o","l","e",".">>,
     default |->
        <<"H","i","!"," ","I","'","m"," ","D","i","a","n","e","l","l","e",","," ","a","n","d"," ",
        "I","'","d"," ","l","o","v","e"," ","t","o"," ","h","e","l","p"," ","y","o","u"," ","w","i",
        "t","h"," ","y","o","u","r"," ","C","V","!"," ","S","o","m","e"," ","g","e","n","e","r","a",
        "l"," ","t","i","p","s",":"," ","u","s","e"," ","k","e","y","w","o","r","d","s"," ","f","r",
        "o","m"," ","j","o","b"," ","d","e","s","c","r","i","p","t","i","o","n","s",","," ","q","u",
        "a","n","t","i","f","y"," ","a","c","h","i","e","v","e","m","e","n","t","s"," ","w","i","t",
        "h"," ","n","u","m","b","e","r","s",","," ","u","s","e"," ","a","c","t","i","o","n"," ","v",
        "e","r","b","s",","," ","k","e","e","p"," ","f","o","r","m","a","t","t","i","n","g"," ","s",
        "i","m","p","l","e"," ","a","n","d"," ","A","T","S","-","f","r","i","e","n","d","l","y",",",
        " ","a","n","d"," ","t","a","i","l","o","r"," ","y","o","u","r"," ","C","V"," ","f","o","r",
        " ","e","a","c","h"," ","a","p","p","l","i","c","a","t","i","o","n","."," ","F","e","e","l",
        " ","f","r","e","e"," ","t","o"," ","a","s","k"," ","m","e"," ","a","n","y","t","h","i","n",
        "g"," ","s","p","e","c","i","f","i","c","!">>]

\* any(word in prompt_lower for word in words)
any_word_in(words, prompt_lower) == \E w \in DOMAIN words : Contains(prompt_lower, words[w])

_get_fallback_response(prompt) ==
    LET prompt_lower == str_lower(prompt)
    IN  IF any_word_in(<<<<"s","c","o","r","e">>, <<"r","a","t","i","n","g">>, <<"g","r","a","d","e">>>>, prompt_lower)
        THEN fallback_responses.score
        ELSE IF any_word_in(<<<<"k","e","y","w","o","r","d">>, <<"o","p","t","i","m","i","z","e">>, <<"a","t","s">>>>, prompt_lower)
        THEN fallback_responses.keywords
        ELSE IF any_word_in(<<<<"i","m","p","r","o","v","e">>, <<"b","e","t","t","e","r">>, <<"e","n","h","a","n","c","e">>>>, prompt_lower)
        THEN fallback_responses.improve
        ELSE IF any_word_in(<<<<"s","u","m","m","a","r","y">>, <<"p","r","o","f","i","l","e">>, <<"o","b","j","e","c","t","i","v","e">>>>, prompt_lower)
        THEN fallback_responses.summary
        ELSE fallback_responses.default

\* get_response with the Ollama server in state `server`: the prompt built
\* from user_input goes to the server, whose reply does not depend on it
\* in the model
get_response(input, server) ==
    IF server.connected
    THEN generate_response(server.reply)
    ELSE _get_fallback_response(input)

\* the dict help_texts of _get_fallback_help
help_texts ==
    [keywords |->
        <<"R","e","s","e","a","r","c","h"," ","t","h","e"," ","j","o","b"," ","d","e","s","c","r",
        "i","p","t","i","o","n"," ","t","h","o","r","o","u","g","h","l","y"," ","a","n","d"," ","i",
        "d","e","n","t","i","f","y"," ","k","e","y"," ","t","e","r","m","s","."," ","U","s","e"," ",
        "i","n","d","u","s","t","r","y","-","s","p","e","c","i","f","i","c"," ","l","a","n","g","u",
        "a","g","e"," ","a","n","d"," ","i","n","c","o","r","p","o","r","a","t","e"," ","r","e","l",
        "e","v","a","n","t"," ","k","e","y","w","o","r","d","s"," ","n","a","t","u","r","a","l","l",
        "y"," ","t","h","r","o","u","g","h","o","u","t"," ","y","o","u","r"," ","C","V","."," ","A",
        "v","o","i","d"," ","o","v","e","r","u","s","i","n","g"," ","k","e","y","w","o","r","d","s",
        " ","-"," ","a","i","m"," ","f","o","r"," ","n","a","t","u","r","a","l"," ","i","n","t","e",
        "g","r","a","t","i","o","n",".">>,
     structure |->
        <<"O","r","g","a","n","i","z","e"," ","y","o","u","r"," ","C","V"," ","w","i","t","h"," ",
        "c","l","e","a","r"," ","s","e","c","t","i","o","n","s",":"," ","C","o","n","t","a","c","t",
        " ","I","n","f","o",","," ","P","r","o","f","e","s","s","i","o","n","a","l"," ","S","u","m",
        "m","a","r","y",","," ","W","o","r","k"," ","E","x","p","e","r","i","e","n","c","e",","," ",
        "E","d","u","c","a","t","i","o","n",","," ","a","n","d"," ","S","k","i","l","l","s","."," ",
        "U","s","e"," ","c","o","n","s","i","s","t","e","n","t"," ","f","o","r","m","a","t","t","i",
        "n","g"," ","a","n","d"," ","c","l","e","a","r"," ","h","e","a","d","i","n","g","s","."," ",
        "E","n","s","u","r","e"," ","l","o","g","i","c","a","l"," ","f","l","o","w"," ","f","r","o",
        "m"," ","m","o","s","t"," ","t","o"," ","l","e","a","s","t"," ","r","e","l","e","v","a","n",
        "t"," ","i","n","f","o","r","m","a","t","i","o","n",".">>,
     content |->
        <<"F","o","c","u","s"," ","o","n"," ","a","c","h","i","e","v","e","m","e","n","t","s"," ",
        "r","a","t","h","e","r"," ","t","h","a","n"," ","j","u","s","t"," ","r","e","s","p","o","n",
        "s","i","b","i","l","i","t","i","e","s","."," ","U","s","e"," ","t","h","e"," ","S","T","A",
        "R"," ","m","e","t","h","o","d"," ","(","S","i","t","u","a","t","i","o","n",","," ","T","a",
        "s","k",","," ","A","c","t","i","o","n",","," ","R","e","s","u","l","t",")"," ","t","o"," ",
        "d","e","s","c","r","i","b","e"," ","a","c","c","o","m","p","l","i","s","h","m","e","n","t",
        "s","."," ","I","n","c","l","u","d","e"," ","s","p","e","c","i","f","i","c"," ","m","e","t",
        "r","i","c","s"," ","a","n","d"," ","q","u","a","n","t","i","f","i","a","b","l","e"," ","r",
        "e","s","u","l","t","s"," ","w","h","e","r","e","v","e","r"," ","p","o","s","s","i","b","l",
        "e",".">>,
     formatting |->
        <<"U","s","e"," ","s","i","m","p","l","e",","," ","c","l","e","a","n"," ","f","o","r","m",
        "a","t","t","i","n","g"," ","t","h","a","t","'","s"," ","A","T","S","-","f","r","i","e","n",
        "d","l","y","."," ","A","v","o","i","d"," ","t","a","b","l","e","s",","," ","g","r","a","p",
        "h","i","c","s",","," ","a","n","d"," ","u","n","u","s","u","a","l"," ","f","o","n","t","s",
        "."," ","S","t","i","c","k"," ","t","o"," ","s","t","a","n","d","a","r","d"," ","f","o","n",
        "t","s"," ","l","i","k","e"," ","A","r","i","a","l"," ","o","r"," ","C","a","l","i","b","r",
        "i","."," ","U","s","e"," ","c","o","n","s","i","s","t","e","n","t"," ","s","p","a","c","i",
        "n","g"," ","a","n","d"," ","b","u","l","l","e","t"," ","p","o","i","n","t","s"," ","f","o",
        "r"," ","e","a","s","y"," ","s","c","a","n","n","i","n","g",".">>,
     technical_skills |->
        <<"L","i","s","t"," ","t","e","c","h","n","i","c","a","l"," ","s","k","i","l","l","s"," ",
        "r","e","l","e","v","a","n","t"," ","t","o"," ","t","h","e"," ","j","o","b","."," ","G","r",
        "o","u","p"," ","s","i","m","i","l","a","r"," ","s","k","i","l","l","s"," ","t","o","g","e",
        "t","h","e","r","."," ","I","n","c","l","u","d","e"," ","p","r","o","f","i","c","i","e","n",
        "c","y"," ","l","e","v","e","l","s"," ","w","h","e","r","e"," ","a","p","p","r","o","p","r",
        "i","a","t","e","."," ","P","r","o","v","i","d","e"," ","c","o","n","t","e","x","t"," ","f",
        "o","r"," ","h","o","w"," ","y","o","u","'","v","e"," ","u","s","e","d"," ","t","h","e","s",
        "e"," ","s","k","i","l","l","s"," ","i","n"," ","r","e","a","l"," ","p","r","o","j","e","c",
        "t","s",".">>,
     achievements |->
        <<"Q","u","a","n","t","i","f","y"," ","e","v","e","r","y","t","h","i","n","g"," ","p","o",
        "s","s","i","b","l","e"," ","w","i","t","h"," ","n","u","m","b","e","r","s",","," ","p","e",
        "r","c","e","n","t","a","g","e","s",","," ","d","o","l","l","a","r"," ","a","m","o","u","n",
        "t","s",","," ","o","r"," ","t","i","m","e","f","r","a","m","e","s","."," ","U","s","e"," ",
        "s","t","r","o","n","g"," ","a","c","t","i","o","n"," ","v","e","r","b","s","."," ","F","o",
        "c","u","s"," ","o","n"," ","r","e","s","u","l","t","s"," ","a","n","d"," ","i","m","p","a",
        "c","t"," ","r","a","t","h","e","r"," ","t","h","a","n"," ","j","u","s","t"," ","t","a","s",
        "k","s"," ","p","e","r","f","o","r","m","e","d",".">>]

\* a suggestion is a dict that may have no 'category'
_get_fallback_help(a_suggestion) ==
    LET category == IF a_suggestion.has_category THEN a_suggestion.category ELSE "general"
    IN  IF category \in DOMAIN help_texts
        THEN help_texts[category]
        ELSE <<"F","o","c","u","s"," ","o","n"," ","m","a","k","i","n","g"," ","y","o","u","r"," ",
             "C","V"," ","c","l","e","a","r",","," ","r","e","l","e","v","a","n","t",","," ","a",
             "n","d"," ","r","e","s","u","l","t","s","-","o","r","i","e","n","t","e","d","."," ",
             "T","a","i","l","o","r"," ","c","o","n","t","e","n","t"," ","t","o"," ","t","h","e",
             " ","s","p","e","c","i","f","i","c"," ","j","o","b"," ","a","n","d"," ","u","s","e",
             " ","q","u","a","n","t","i","f","i","a","b","l","e"," ","a","c","h","i","e","v","e",
             "m","e","n","t","s"," ","t","o"," ","d","e","m","o","n","s","t","r","a","t","e"," ",
             "y","o","u","r"," ","v","a","l","u","e",".">>

\* the text _get_detailed_help displays under "Detailed Guidance"
_get_detailed_help(a_suggestion, server) ==
    IF server.connected
    THEN generate_response(server.reply)
    ELSE _get_fallback_help(a_suggestion)

\* ------------------------------------------------------------------------
\* Specification SpecChat: the chat and the detailed help are asked, with
\* the Ollama server coming and going
\* ------------------------------------------------------------------------
ChatInputs ==
    {<<"W","h","a","t"," ","i","s"," ","m","y"," ","s","c","o","r","e","?">>,
     <<"O","p","t","i","m","i","z","e"," ","k","e","y","w","o","r","d","s">>,
     <<"H","o","w"," ","c","a","n"," ","I"," ","d","o"," ","b","e","t","t","e","r","?">>,
     <<"W","r","i","t","e"," ","m","y"," ","p","r","o","f","i","l","e">>,
     <<"H","e","l","l","o">>,
     <<"I","m","p","r","o","v","e"," ","m","y"," ","A","T","S"," ","s","c","o","r","e">>}

\* the categories _generate_suggestions gives, one it does not give, and a
\* suggestion without category
HelpSuggestions ==
    {[has_category |-> TRUE, category |-> c] :
        c \in {"keywords", "technical_skills", "structure", "formatting", "content",
               "achievements", "layout"}}
    \cup {[has_category |-> FALSE, category |-> ""]}

InitChat ==
    /\ UiNotRun
    /\ user_input \in ChatInputs
    /\ help_suggestion \in HelpSuggestions
    /\ chat_response = NotCalled
    /\ help_response = NotCalled
    /\ ollama_server \in OllamaServers
    /\ input_cv_text = NotCalled
    /\ input_job_description = NotCalled
    /\ flesch_of_cv = NotCalled
    /\ float_tie = NotCalled
    /\ previous = NotCalled
    /\ cv_keywords = NotCalled
    /\ job_keywords = NotCalled
    /\ keyword_comparison = NotCalled
    /\ hash_seed = 1
    /\ analysis_results = NotCalled
    /\ breakdown = NotCalled
    /\ grade_scores = NotCalled
    /\ grades = NotCalled
    /\ frame = NotCalled
    /\ filtered_tokens = NotCalled
    /\ HistoryNotRun

\* chat_interface.get_response(user_input)
GetResponse ==
    /\ chat_response' = [called |-> TRUE,
                         response |-> get_response(user_input, ollama_server)]
    /\ UNCHANGED <<user_input, help_suggestion, help_response, compare_vars, hash_seed,
                   pipeline_vars, analysis_results, breakdown, grade_vars, frame,
                   filtered_tokens, history_vars, ui_vars>>

\* the "Get Help" button of a suggestion card
GetDetailedHelp ==
    /\ help_response' = [called |-> TRUE,
                         help_response |-> _get_detailed_help(help_suggestion,
                                                              ollama_server)]
    /\ UNCHANGED <<user_input, help_suggestion, chat_response, compare_vars, hash_seed,
                   pipeline_vars, analysis_results, breakdown, grade_vars, frame,
                   filtered_tokens, history_vars, ui_vars>>

NextChat == GetResponse \/ GetDetailedHelp \/ OllamaChanges

SpecChat == InitChat /\ [][NextChat]_vars

\* the fixed static fallback strings of the two features
StaticFallbacks ==
    {fallback_responses[k] : k \in DOMAIN fallback_responses}
    \cup {_get_fallback_help(s) : s \in HelpSuggestions}

\* C14: the chat and the suggestion help degrade to a member of the fixed
\* static fallback set whenever the language model is disconnected or
\* erroring: a response given while the server is down, or up and failing the
\* generate call, is one of the predefined fallback texts.
C14_Original ==
    [][/\ (chat_response' # chat_response /\ LlmFailed(ollama_server))
            => chat_response'.response \in StaticFallbacks
       /\ (help_response' # help_response /\ LlmFailed(ollama_server))
            => help_response'.help_response \in StaticFallbacks]_vars

\* C14, the part the code keeps: a response given while is_connected() is
\* false is the fallback text chosen by the prompt or by the category
C14_DisconnectedFallback ==
    [][/\ (chat_response' # chat_response /\ ~ollama_server.connected)
            => chat_response'.response = _get_fallback_response(user_input)
       /\ (help_response' # help_response /\ ~ollama_server.connected)
            => help_response'.help_response = _get_fallback_help(help_suggestion)]_vars

\* the chat has answered with the error text of a failed generate call
C14_Witness ==
    /\ chat_response.called
    /\ chat_response.response = <<"E","r","r","o","r",":"," ","H","T","T","P"," ","5","0","0">>
    /\ chat_response.response \notin StaticFallbacks

\* ------------------------------------------------------------------------
\* Specification SpecExtract: a text is normalized (_clean_text, then
\* _tokenize_and_filter) and the top keywords of its tokens are taken
\* ------------------------------------------------------------------------

\* the words the texts are written with: a stopword, a word, a word with
\* digits, a number, a short word, two words around a comma
TextWords ==
    <<<<"T","h","e">>,
      <<"P","y","t","h","o","n">>,
      <<"c","3","p","o">>,
      <<"2","0","2","4">>,
      <<"g","o">>,
      <<"S","Q","L",",","d","a","t","a">>>>

MaxWords == 3

\* the values of top_n: below, at and above the number of distinct tokens,
\* and the default
TopNs == {1, 2, 3, 20}

\* the text of the words with these indices, a space between two
RECURSIVE text_of(_)
text_of(word_indices) ==
    IF word_indices = <<>> THEN <<>>
    ELSE IF Len(word_indices) = 1 THEN TextWords[word_indices[1]]
    ELSE TextWords[word_indices[1]] \o <<" ">> \o text_of(Tail(word_indices))

ExtractTexts ==
    {text_of(w) : w \in SeqsUpTo(DOMAIN TextWords, MaxWords)}
    \cup {<<" ", "\n">>, <<"!", "?">>}

InitExtract ==
    /\ UiNotRun
    /\ input_cv_text \in ExtractTexts
    /\ filtered_tokens = NotCalled
    /\ cv_keywords = NotCalled
    /\ job_keywords = NotCalled
    /\ keyword_comparison = NotCalled
    /\ hash_seed = 1
    /\ input_job_description = NotCalled
    /\ flesch_of_cv = NotCalled
    /\ float_tie = NotCalled
    /\ ollama_server = NotCalled
    /\ previous = NotCalled
    /\ analysis_results = NotCalled
    /\ breakdown = NotCalled
    /\ grade_scores = NotCalled
    /\ grades = NotCalled
    /\ frame = NotCalled
    /\ ChatNotRun
    /\ HistoryNotRun

\* tokens = self._tokenize_and_filter(self._clean_text(text))
Normalize ==
    /\ filtered_tokens' = [called |-> TRUE,
                           tokens |-> _tokenize_and_filter(_clean_text(input_cv_text))]
    /\ UNCHANGED <<input_cv_text, compare_vars, hash_seed, input_job_description, flesch_of_cv,
                   float_tie, ollama_server, previous, analysis_results, breakdown, grade_vars,
                   frame, chat_vars, history_vars, ui_vars>>

\* 'all_keywords': self._get_top_keywords(tokens, top_n)
GetTopKeywords ==
    /\ filtered_tokens.called
    /\ \E top_n \in TopNs :
           cv_keywords' = [called |-> TRUE, top_n |-> top_n,
                           all_keywords |-> _get_top_keywords(filtered_tokens.tokens, top_n)]
    /\ UNCHANGED <<input_cv_text, filtered_tokens, job_keywords, keyword_comparison, hash_seed,
                   input_job_description, flesch_of_cv, float_tie, ollama_server, previous,
                   analysis_results, breakdown, grade_vars, frame, chat_vars, history_vars, ui_vars>>

NextExtract == Normalize \/ GetTopKeywords

SpecExtract == InitExtract /\ [][NextExtract]_vars

\* the tokens stand in the text in their order, one after the other
RECURSIVE InOrder(_, _, _)
InOrder(toks, t, from) ==
    IF toks = <<>> THEN TRUE
    ELSE \E i \in from..Len(t) :
             /\ MatchAt(t, i, Head(toks))
             /\ InOrder(Tail(toks), t, i + Len(Head(toks)))

\* C15: for every input text the normalizer returns, in the original
\* left-to-right order, only lowercase alphabetic tokens of length > 2 that
\* are not stopwords and contain no digits; for empty input it returns the
\* empty sequence.
C15_Original ==
    filtered_tokens.called =>
        /\ \A k \in DOMAIN filtered_tokens.tokens :
               LET token == filtered_tokens.tokens[k]
               IN  /\ \A i \in DOMAIN token : token[i] \in LowerSet
                   /\ Len(token) > 2
                   /\ token \notin stop_words
        /\ InOrder(filtered_tokens.tokens, str_lower(input_cv_text), 1)
        /\ (input_cv_text = <<>> => filtered_tokens.tokens = <<>>)

\* C15, what the code keeps: the tokens stand in the lowercased text in
\* their order, are made of lowercase letters, digits and "_", are longer than
\* 2, are no stopwords and are not made of digits alone; empty input gives
\* the empty sequence
C15_WordTokens ==
    filtered_tokens.called =>
        /\ \A k \in DOMAIN filtered_tokens.tokens :
               LET token == filtered_tokens.tokens[k]
               IN  /\ \A i \in DOMAIN token : token[i] \in LowerSet \cup Digits \cup {"_"}
                   /\ \E i \in DOMAIN token : token[i] \notin Digits
                   /\ Len(token) > 2
                   /\ token \notin stop_words
        /\ InOrder(filtered_tokens.tokens, str_lower(input_cv_text), 1)
        /\ (input_cv_text = <<>> => filtered_tokens.tokens = <<>>)

\* the normalizer has returned a token with digits in it
C15_Witness ==
    /\ filtered_tokens.called
    /\ \E k \in DOMAIN filtered_tokens.tokens :
           filtered_tokens.tokens[k] = <<"c","3","p","o">>

\* how often a token stands in the token sequence, and where first
frequency(token, toks) == Cardinality({j \in DOMAIN toks : toks[j] = token})

first_occurrence(token, toks) == CHOOSE j \in DOMAIN toks :
                                    toks[j] = token /\ \A i \in 1..(j - 1) : toks[i] # token

\* C16: all_keywords is a duplicate-free list of at most top_n tokens,
\* ordered by descending frequency with ties broken by first occurrence in
\* the token sequence; every token left out has a frequency no higher than
\* any token kept.
C16_TopKeywords ==
    cv_keywords.called =>
        LET toks == filtered_tokens.tokens
            kept == cv_keywords.all_keywords
        IN  /\ \A i, j \in DOMAIN kept : i # j => kept[i] # kept[j]
            /\ Len(kept) <= cv_keywords.top_n
            /\ \A i \in DOMAIN kept : \E j \in DOMAIN toks : toks[j] = kept[i]
            /\ \A i, j \in DOMAIN kept :
                   i < j =>
                       \/ frequency(kept[i], toks) > frequency(kept[j], toks)
                       \/ /\ frequency(kept[i], toks) = frequency(kept[j], toks)
                          /\ first_occurrence(kept[i], toks) < first_occurrence(kept[j], toks)
            /\ \A j \in DOMAIN toks :
                   (\A i \in DOMAIN kept : kept[i] # toks[j]) =>
                       /\ Len(kept) = cv_keywords.top_n
                       /\ \A i \in DOMAIN kept :
                              frequency(toks[j], toks) <= frequency(kept[i], toks)

\* a token that comes later and more often stands first, two tokens of one
\* frequency follow in the order of their first occurrence, and a token is
\* left out
C16_Witness ==
    /\ cv_keywords.called
    /\ cv_keywords.top_n = 2
    /\ filtered_tokens.tokens = <<<<"s","q","l">>, <<"d","a","t","a">>,
                                  <<"p","y","t","h","o","n">>, <<"p","y","t","h","o","n">>>>
    /\ cv_keywords.all_keywords = <<<<"p","y","t","h","o","n">>, <<"s","q","l">>>>

\* ------------------------------------------------------------------------
\* Strengths, weaknesses and next steps of calculate_overall_score
\* ------------------------------------------------------------------------
ComponentSet == {Components[i] : i \in DOMAIN Components}

\* the components with at most two components scoring lower
ThreeLowest(scores) ==
    {c \in ComponentSet : Cardinality({d \in ComponentSet : scores[d] < scores[c]}) <= 2}

\* the component whose recommendation a step is
component_of_step(step) ==
    CHOOSE c \in ComponentSet : \E r \in DOMAIN step_recommendations[c] :
                                    step_recommendations[c][r] = step

\* C17: _generate_next_steps returns at most 5 strings, taken only from the
\* 3 lowest-scoring components that score < 80, at most 2 canned
\* recommendations per component, listed in ascending-score order of their
\* components; it returns no steps when all of the 3 lowest components score
\* >= 80.
C17_NextSteps ==
    breakdown.called =>
        LET scores == breakdown.component_scores
            steps == breakdown.next_steps
        IN  /\ Len(steps) <= 5
            /\ \A k \in DOMAIN steps :
                   \E c \in ThreeLowest(scores) :
                       /\ scores[c] < 80
                       /\ steps[k] \in {step_recommendations[c][1], step_recommendations[c][2]}
            /\ \A c \in ComponentSet :
                   Cardinality({k \in DOMAIN steps : component_of_step(steps[k]) = c}) <= 2
            /\ \A i, j \in DOMAIN steps :
                   i < j => scores[component_of_step(steps[i])]
                                <= scores[component_of_step(steps[j])]
            /\ (\A c \in ThreeLowest(scores) : scores[c] >= 80) => steps = <<>>

\* three components score below 80 and two do not: the steps of the three
\* are cut to 5
C17_Witness ==
    /\ breakdown.called
    /\ Len(breakdown.next_steps) = 5
    /\ Cardinality({c \in ComponentSet : breakdown.component_scores[c] < 80}) = 3

\* every component scores 80 or more: no steps
C17_WitnessNone ==
    /\ breakdown.called
    /\ \A c \in ComponentSet : breakdown.component_scores[c] >= 80
    /\ breakdown.next_steps = <<>>

\* the components a list of messages names
named_in(messages, table) ==
    {c \in ComponentSet : \E k \in DOMAIN messages : messages[k] = table[c]}

\* the highest-scoring components
Highest(scores) == {c \in ComponentSet : \A d \in ComponentSet : scores[d] <= scores[c]}

\* strengths and weaknesses follow the rules of their thresholds
StrengthsAndWeaknessesByRule ==
    LET scores == breakdown.component_scores
        strengths == breakdown.strengths
        weaknesses == breakdown.weaknesses
        strong == {c \in ComponentSet : scores[c] >= 80}
    IN  /\ strengths # <<>>
        /\ IF strong # {}
           THEN /\ Len(strengths) = Cardinality(strong)
                /\ named_in(strengths, strength_messages) = strong
           ELSE /\ Len(strengths) = 1
                /\ \E c \in Highest(scores) : strengths[1] = relative_strength[c]
        /\ Len(weaknesses) = Cardinality({c \in ComponentSet : scores[c] < 60})
        /\ named_in(weaknesses, weakness_messages) = {c \in ComponentSet : scores[c] < 60}

\* the components that strengths names, by either kind of message
in_strengths ==
    named_in(breakdown.strengths, strength_messages)
    \cup named_in(breakdown.strengths, relative_strength)

\* C18: strengths contains the fixed message of each component scoring
\* >= 80, or, if none qualifies, exactly one 'Relatively strong <component>'
\* entry for the single highest-scoring component (so strengths is never
\* empty); weaknesses contains the fixed message of exactly the components
\* scoring < 60; no component appears in both.
C18_Original ==
    breakdown.called =>
        /\ StrengthsAndWeaknessesByRule
        /\ in_strengths \cap named_in(breakdown.weaknesses, weakness_messages) = {}

\* C18 as the code has it: the same rules, and a component appears in both
\* only as the relative strength of a CV whose highest score is below 60
C18_StrengthsWeaknesses ==
    breakdown.called =>
        /\ StrengthsAndWeaknessesByRule
        /\ \A c \in in_strengths \cap named_in(breakdown.weaknesses, weakness_messages) :
               /\ breakdown.strengths = <<relative_strength[c]>>
               /\ breakdown.component_scores[c] < 60
               /\ c \in Highest(breakdown.component_scores)

\* every component scores below 60: the highest is the relative strength and
\* a weakness as well
C18_Witness ==
    /\ breakdown.called
    /\ \A c \in ComponentSet : breakdown.component_scores[c] < 60
    /\ Len(breakdown.weaknesses) = 5
    /\ in_strengths \cap named_in(breakdown.weaknesses, weakness_messages) # {}

\* ------------------------------------------------------------------------
\* Specification SpecSuggest: _generate_suggestions on bounded arguments,
\* as analyze_cv calls it with the locals of its frame
\* ------------------------------------------------------------------------

\* a CV of n >= 3 words without an action verb
cv_without_verbs(n) ==
    <<"P","y","t","h","o","n"," ","s","e","r","v","i","c","e","s"," ","a","r","e">>
    \o [i \in 1..(2 * (n - 3)) |-> IF i % 2 = 1 THEN " " ELSE "x"]

\* each side of the two limits of the length rules
SuggestWordCounts == {3, 199, 200, 800, 801}

\* keyword_comparison dicts, the keys _generate_suggestions reads
SuggestComparisons ==
    {[match_percentage |-> p, missing_keywords |-> missing, missing_technical |-> missing] :
        p \in {0, 4999, 5000, 10000}, missing \in {<<>>, <<<<"d","o","c","k","e","r">>>>}}

\* structure_analysis dicts, the keys _generate_suggestions reads
SuggestStructures ==
    {[has_summary |-> a, uses_bullet_points |-> b, has_quantified_achievements |-> c] :
        a \in BOOLEAN, b \in BOOLEAN, c \in BOOLEAN}

InitSuggest ==
    /\ UiNotRun
    /\ input_cv_text \in {cv_of_words(n) : n \in SuggestWordCounts}
                          \cup {cv_without_verbs(n) : n \in SuggestWordCounts}
    /\ input_job_description = Scenario1Job
    /\ \E comparison \in SuggestComparisons, structure_analysis \in SuggestStructures :
           frame = [called |-> TRUE, pc |-> "suggestions",
                    locals |-> [keyword_comparison |-> comparison,
                                structure_analysis |-> structure_analysis]]
    /\ flesch_of_cv = NotCalled
    /\ float_tie = NotCalled
    /\ ollama_server = NotCalled
    /\ previous = NotCalled
    /\ hash_seed = 1
    /\ cv_keywords = NotCalled
    /\ job_keywords = NotCalled
    /\ keyword_comparison = NotCalled
    /\ analysis_results = NotCalled
    /\ breakdown = NotCalled
    /\ grade_scores = NotCalled
    /\ grades = NotCalled
    /\ filtered_tokens = NotCalled
    /\ ChatNotRun
    /\ HistoryNotRun

\* suggestions = self._generate_suggestions(cv_text, job_description,
\*                                          keyword_comparison, structure_analysis)
GenerateSuggestions ==
    /\ frame.called
    /\ frame.pc = "suggestions"
    /\ frame' = [called |-> TRUE, pc |-> "results", locals |-> frame.locals,
                 suggestions |-> _generate_suggestions(input_cv_text, input_job_description,
                                                       frame.locals.keyword_comparison,
                                                       frame.locals.structure_analysis)]
    /\ UNCHANGED <<compare_vars, hash_seed, pipeline_vars, analysis_results, breakdown,
                   grade_vars, filtered_tokens, chat_vars, history_vars, ui_vars>>

NextSuggest == GenerateSuggestions

SpecSuggest == InitSuggest /\ [][NextSuggest]_vars

\* the rules in the order of the claim, each with its title in the code
SuggestionRules ==
    <<[rule |-> 1, title |-> "Improve Keyword Matching", priority |-> "high", category |-> "keywords"],
      [rule |-> 2, title |-> "Add Technical Skills", priority |-> "high", category |-> "technical_skills"],
      [rule |-> 3, title |-> "Add Professional Summary", priority |-> "medium", category |-> "structure"],
      [rule |-> 4, title |-> "Use Bullet Points", priority |-> "medium", category |-> "formatting"],
      [rule |-> 5, title |-> "Quantify Your Achievements", priority |-> "high", category |-> "content"],
      [rule |-> 6, title |-> "Use Strong Action Verbs", priority |-> "medium", category |-> "content"],
      [rule |-> 7, title |-> "Expand Content", priority |-> "medium", category |-> "content"],
      [rule |-> 8, title |-> "Reduce Length", priority |-> "low", category |-> "content"]>>

\* the number of words the CV was built with, and whether with a verb
suggest_words == CHOOSE n \in SuggestWordCounts :
                     input_cv_text \in {cv_of_words(n), cv_without_verbs(n)}

\* the condition of each rule, on the arguments
Triggered(rule) ==
    LET comparison == frame.locals.keyword_comparison
        structure_analysis == frame.locals.structure_analysis
    IN  CASE rule = 1 -> comparison.match_percentage < 5000
          [] rule = 2 -> comparison.missing_technical # <<>>
          [] rule = 3 -> ~structure_analysis.has_summary
          [] rule = 4 -> ~structure_analysis.uses_bullet_points
          [] rule = 5 -> ~structure_analysis.has_quantified_achievements
          [] rule = 6 -> input_cv_text = cv_without_verbs(suggest_words)
          [] rule = 7 -> suggest_words < 200
          [] rule = 8 -> suggest_words > 800

\* C19: _generate_suggestions evaluates its rules in fixed order and appends
\* one suggestion per triggered rule with fixed priority and category; the
\* output is the subsequence of the rule order made of the triggered rules,
\* and every priority is one of high, medium, low.
C19_RuleOrder ==
    (frame.called /\ frame.pc = "results") =>
        LET triggered == SelectSeq(SuggestionRules, LAMBDA r : Triggered(r.rule))
        IN  /\ Len(frame.suggestions) = Len(triggered)
            /\ \A i \in DOMAIN frame.suggestions :
                   /\ frame.suggestions[i].title = triggered[i].title
                   /\ frame.suggestions[i].priority = triggered[i].priority
                   /\ frame.suggestions[i].category = triggered[i].category
                   /\ frame.suggestions[i].priority \in {"high", "medium", "low"}

\* the first seven rules are triggered at once
C19_Witness ==
    /\ frame.called
    /\ frame.pc = "results"
    /\ Len(frame.suggestions) = 7
    /\ frame.suggestions[1].category = "keywords"
    /\ frame.suggestions[7].title = "Expand Content"

\* only the last rule is triggered
C19_WitnessLong ==
    /\ frame.called
    /\ frame.pc = "results"
    /\ Len(frame.suggestions) = 1
    /\ frame.suggestions[1].priority = "low"

\* ------------------------------------------------------------------------
\* AnalyticsDashboard.update_history and Specification SpecHistory: the
\* history is updated with one score after another in one session
\* ------------------------------------------------------------------------

\* mutant: the cut keeps the first 10 entries
update_history_keep_first(history, current, score) ==
    LET entries == IF history.called THEN history.entries ELSE <<>>
        appended == Append(entries, [score |-> score])
    IN  [cv_history |-> [called |-> TRUE,
                         entries |-> IF Len(appended) > 10
                                     THEN SubSeq(appended, 1, 10)
                                     ELSE appended],
         previous_cv_score |-> [called |-> TRUE,
                                value |-> IF current.called THEN current.value ELSE score],
         current_cv_score |-> [called |-> TRUE, value |-> score]]

\* the three keys of st.session_state after update_history(score); a key
\* that is not in the session state is NotCalled; an entry is its score (its
\* date is the clock's)
update_history(history, current, score) ==
    LET entries == IF history.called THEN history.entries ELSE <<>>
        appended == Append(entries, [score |-> score])
    IN  [cv_history |-> [called |-> TRUE,
                         entries |-> IF Len(appended) > 10
                                     THEN SubSeq(appended, Len(appended) - 9, Len(appended))
                                     ELSE appended],
         previous_cv_score |-> [called |-> TRUE,
                                value |-> IF current.called THEN current.value ELSE score],
         current_cv_score |-> [called |-> TRUE, value |-> score]]

\* the scores the history is updated with
HistoryScores == {55, 90}

\* the number of calls in a session of the model
MaxCalls == 12

\* a new session: no key is set, or the dashboard has been shown and has
\* set cv_history to the empty list
InitHistory ==
    /\ UiNotRun
    /\ cv_history \in {NotCalled, [called |-> TRUE, entries |-> <<>>]}
    /\ current_cv_score = NotCalled
    /\ previous_cv_score = NotCalled
    /\ update_calls = [called |-> TRUE, scores |-> <<>>]
    /\ cv_keywords = NotCalled
    /\ job_keywords = NotCalled
    /\ keyword_comparison = NotCalled
    /\ hash_seed = 1
    /\ PipelineNotRun
    /\ analysis_results = NotCalled
    /\ breakdown = NotCalled
    /\ grade_scores = NotCalled
    /\ grades = NotCalled
    /\ frame = NotCalled
    /\ filtered_tokens = NotCalled
    /\ ChatNotRun

\* analytics_dashboard.update_history(score)
UpdateHistory ==
    /\ Len(update_calls.scores) < MaxCalls
    /\ \E score \in HistoryScores :
           \E session \in {update_history(cv_history, current_cv_score, score)} :
               /\ cv_history' = session.cv_history
               /\ previous_cv_score' = session.previous_cv_score
               /\ current_cv_score' = session.current_cv_score
               /\ update_calls' = [called |-> TRUE, scores |-> Append(update_calls.scores, score)]
    /\ UNCHANGED <<compare_vars, hash_seed, pipeline_vars, analysis_results, breakdown,
                   grade_vars, frame, filtered_tokens, chat_vars, ui_vars>>

NextHistory == UpdateHistory

SpecHistory == InitHistory /\ [][NextHistory]_vars

\* C20: after any sequence of update_history calls cv_history has at most
\* 10 entries and holds exactly the scores of the most recent min(n, 10)
\* calls in call order; current_cv_score is the last score and
\* previous_cv_score is the score of the call before it (the same score
\* after the first call).
C20_History ==
    LET calls == update_calls.scores
        n == Len(calls)
    IN  n > 0 =>
            /\ cv_history.called
            /\ Len(cv_history.entries) = Min(n, 10)
            /\ \A k \in DOMAIN cv_history.entries :
                   cv_history.entries[k].score = calls[n - Min(n, 10) + k]
            /\ current_cv_score = [called |-> TRUE, value |-> calls[n]]
            /\ previous_cv_score =
                   [called |-> TRUE, value |-> IF n = 1 THEN calls[1] ELSE calls[n - 1]]

\* C20, append-only: an update leaves the entries in place, or moves them
\* one place down when the oldest is dropped, and puts the new score last
C20_AppendOnly ==
    [][cv_history' # cv_history =>
          LET old == IF cv_history.called THEN cv_history.entries ELSE <<>>
              new == cv_history'.entries
          IN  \/ new = old
              \/ \E entry \in {[score |-> s] : s \in HistoryScores} :
                     \/ new = Append(old, entry)
                     \/ Len(old) = 10 /\ new = Append(Tail(old), entry)]_vars

\* twelve updates: the two oldest scores are gone and the third is first
C20_Witness ==
    /\ Len(update_calls.scores) = 12
    /\ update_calls.scores[1] # update_calls.scores[3]
    /\ Len(cv_history.entries) = 10
    /\ cv_history.entries[1].score = update_calls.scores[3]
    /\ previous_cv_score.value # current_cv_score.value

\* ------------------------------------------------------------------------
\* Claims on the grade and percentile of a breakdown (under SpecScore)
\* ------------------------------------------------------------------------

\* C27: in every breakdown the grade and the percentile are the ones the
\* bands give for the reported overall_score (the sum rounded to 1 decimal):
\* grade >=90 A+, >=85 A, ... else D, and percentile >=85 -> 95, >=75 -> 80,
\* >=65 -> 60, >=55 -> 40, else 20.  overall_score is in tenths, the bands
\* take hundredths.
C27_Original ==
    breakdown.called =>
        /\ breakdown.grade = BandOf(10 * breakdown.overall_score)
        /\ breakdown.percentile = _calculate_percentile(10 * breakdown.overall_score)

\* what the code does: the grade and the percentile are the bands' values for
\* the weighted sum before it is rounded
C27_BandsOfUnroundedSum ==
    breakdown.called =>
        LET sum == 10000 - breakdown.improvement_potential
        IN  /\ breakdown.grade = BandOf(sum)
            /\ breakdown.percentile = _calculate_percentile(sum)

\* a breakdown whose sum, 49.95, is reported as 50.0 with the grade of the
\* band below
C27_Witness ==
    /\ breakdown.called
    /\ breakdown.improvement_potential = 10000 - 4995
    /\ breakdown.overall_score = 500
    /\ breakdown.grade = "D"
    /\ breakdown.component_scores.content_quality = 76

\* ------------------------------------------------------------------------
\* Claims on the action-verb suggestion (under SpecPipeline)
\* ------------------------------------------------------------------------

\* the suggestions of the results with the title 'Use Strong Action Verbs'
action_verb_suggestions ==
    SelectSeq(analysis_results.suggestions, LAMBDA sg : sg.title = "Use Strong Action Verbs")

\* C25: the 'Use Strong Action Verbs' suggestion (medium, content) is in the
\* results exactly when the CV has no action verbs, that is, exactly when the
\* action_verbs the keyword extractor made of the same CV text are empty.
C25_Original ==
    analysis_results.called =>
        /\ Len(action_verb_suggestions) \in {0, 1}
        /\ \A k \in DOMAIN action_verb_suggestions :
               /\ action_verb_suggestions[k].priority = "medium"
               /\ action_verb_suggestions[k].category = "content"
        /\ action_verb_suggestions # <<>> <=> ~_has_action_verbs(input_cv_text)
        /\ action_verb_suggestions # <<>> <=> cv_keywords.action_verbs = <<>>

\* what the code does: the suggestion goes by the analyzer's own list of
\* eleven verbs, all of which are on the extractor's list
C25_OwnVerbList ==
    analysis_results.called =>
        /\ action_verb_suggestions # <<>> <=> ~_has_action_verbs(input_cv_text)
        /\ cv_keywords.action_verbs = <<>> => action_verb_suggestions # <<>>

\* the results tell a CV with the verbs 'built' and 'launched' to use action
\* verbs
C25_Witness ==
    /\ analysis_results.called
    /\ input_cv_text = BuiltCV
    /\ Len(cv_keywords.action_verbs) = 2
    /\ action_verb_suggestions # <<>>

\* ------------------------------------------------------------------------
\* Claims on the two scores of one analysis (under SpecPipeline)
\* ------------------------------------------------------------------------

\* the two scores of the analysis in hand, in hundredths
legacy_score == analysis_results.ats_score

weighted_score == 10 * breakdown.overall_score

\* C22: the two scoring strategies can disagree on identical input: on the
\* analysis of Scenario 1 (CV 'Experienced Python developer. AWS certified.',
\* job 'Python AWS Docker') the legacy additive score of _calculate_ats_score
\* and the weighted banded score of calculate_overall_score are different
\* values, and the legacy score is the lower one.
C22_ScoresDisagree ==
    (breakdown.called /\ input_cv_text = Scenario1CV /\ input_job_description = Scenario1Job) =>
        /\ legacy_score # weighted_score
        /\ legacy_score < weighted_score

\* both scores of the analysis of Scenario 1 are in hand
C22_Witness ==
    /\ breakdown.called
    /\ analysis_results.called
    /\ input_cv_text = Scenario1CV
    /\ input_job_description = Scenario1Job
    /\ legacy_score = 5100
    /\ weighted_score = 6620

\* ------------------------------------------------------------------------
\* Claims on the grade tables of the dashboard and the scoring system
\* (under SpecGrade)
\* ------------------------------------------------------------------------

\* C26: AnalyticsDashboard._get_score_grade and ScoringSystem._get_grade
\* give the same letter for every score from 0 to 100.
C26_Original ==
    (grades.called /\ score_grades.called) =>
        /\ score_grades.a = grades.a
        /\ score_grades.b = grades.b

\* what the code does: the two tables give the same letter from 55 on, and
\* below 55 the dashboard gives C where the scoring system gives C- or D
C26_SameFrom55 ==
    (grades.called /\ score_grades.called) =>
        /\ grade_scores[1] >= 5500 => score_grades.a = grades.a
        /\ grade_scores[2] >= 5500 => score_grades.b = grades.b
        /\ grade_scores[1] < 5500 => score_grades.a = "C" /\ grades.a \in {"C-", "D"}
        /\ grade_scores[2] < 5500 => score_grades.b = "C" /\ grades.b \in {"C-", "D"}

\* the scores 50 and 55 have been graded by both: C- and C by the scoring
\* system, C and C by the dashboard
C26_Witness ==
    /\ grades.called
    /\ score_grades.called
    /\ grade_scores = <<5000, 5500>>
    /\ grades.a = "C-"
    /\ score_grades.a = "C"
    /\ score_grades.b = grades.b

\* ------------------------------------------------------------------------
\* Specification SpecAtsScore: the step of analyze_cv that computes the
\* legacy score, on bounded comparisons, structures and CVs
\* ------------------------------------------------------------------------

MaxTechMatched == 11

\* keyword_comparison dicts, the keys _calculate_ats_score reads: each side
\* of the cap of the keyword part (40) and of the technical part (10 skills)
AtsComparisons ==
    {[match_percentage |-> p, matched_technical |-> ListOfLen(t, <<"s","q","l">>)] :
        p \in {0, 3999, 4000, 4001, 10000}, t \in {0, 1, 9, 10, MaxTechMatched}}

\* structure_analysis dicts, the eight flags _calculate_ats_score reads
AtsStructures ==
    {[has_contact_info |-> a, has_summary |-> b, has_experience |-> c,
      has_education |-> a, has_skills |-> b, uses_bullet_points |-> c,
      has_quantified_achievements |-> a, appropriate_length |-> b] :
        a \in BOOLEAN, b \in BOOLEAN, c \in BOOLEAN}

\* each side of the 200 words of the content part
AtsWordCounts == {3, 199, 200}

InitAtsScore ==
    /\ UiNotRun
    /\ input_cv_text \in {cv_of_words(n) : n \in AtsWordCounts}
                          \cup {cv_without_verbs(n) : n \in AtsWordCounts}
    /\ input_job_description = Scenario1Job
    /\ \E comparison \in AtsComparisons, structure_analysis \in AtsStructures :
           frame = [called |-> TRUE, pc |-> "ats_score",
                    locals |-> [keyword_comparison |-> comparison,
                                structure_analysis |-> structure_analysis]]
    /\ flesch_of_cv = NotCalled
    /\ float_tie = NotCalled
    /\ ollama_server = NotCalled
    /\ previous = NotCalled
    /\ hash_seed = 1
    /\ cv_keywords = NotCalled
    /\ job_keywords = NotCalled
    /\ keyword_comparison = NotCalled
    /\ analysis_results = NotCalled
    /\ breakdown = NotCalled
    /\ grade_scores = NotCalled
    /\ grades = NotCalled
    /\ filtered_tokens = NotCalled
    /\ ChatNotRun
    /\ HistoryNotRun

\* ats_score = self._calculate_ats_score(cv_text, job_description,
\*                                       keyword_comparison, structure_analysis)
CalculateAtsScore ==
    /\ frame.called
    /\ frame.pc = "ats_score"
    /\ frame' = [called |-> TRUE, pc |-> "ai_analysis", locals |-> frame.locals,
                 ats_score |-> _calculate_ats_score(input_cv_text, input_job_description,
                                                    frame.locals.keyword_comparison,
                                                    frame.locals.structure_analysis)]
    /\ UNCHANGED <<compare_vars, hash_seed, pipeline_vars, analysis_results, breakdown,
                   grade_vars, filtered_tokens, chat_vars, history_vars, ui_vars>>

NextAtsScore == CalculateAtsScore

SpecAtsScore == InitAtsScore /\ [][NextAtsScore]_vars

\* the number of words the CV was built with
ats_words == CHOOSE n \in AtsWordCounts : input_cv_text \in {cv_of_words(n), cv_without_verbs(n)}

\* the four parts of the claim, in points, from the arguments of the call
KeywordPart == Min(frame.locals.keyword_comparison.match_percentage, 4000)

StructurePart ==
    LET st == frame.locals.structure_analysis
        points == [has_contact_info |-> 5, has_summary |-> 3, has_experience |-> 5,
                   has_education |-> 3, has_skills |-> 4, uses_bullet_points |-> 3,
                   has_quantified_achievements |-> 4, appropriate_length |-> 3]
        on == {f \in DOMAIN points : st[f]}
        RECURSIVE total(_)
        total(fs) == IF fs = {} THEN 0
                     ELSE LET f == CHOOSE x \in fs : TRUE IN points[f] + total(fs \ {f})
    IN  total(on)

TechnicalPart == Min(2 * Len(frame.locals.keyword_comparison.matched_technical), 20)

ContentPart ==
    (IF input_cv_text = cv_of_words(ats_words) THEN 5 ELSE 0)
    + (IF ats_words >= 200 THEN 5 ELSE 0)

\* C24: the legacy score is in [0,100] and is the sum of four capped parts:
\* keyword part min(match_percentage, 40) <= 40, structure part <= 30,
\* technical part min(2 * |matched_technical|, 20) <= 20, content part <= 10;
\* it is 100 only when all four parts are at their caps.  The score and the
\* keyword part are in hundredths of a point.
C24_CappedParts ==
    (frame.called /\ frame.pc = "ai_analysis") =>
        /\ frame.ats_score \in 0..10000
        /\ frame.ats_score = KeywordPart + 100 * (StructurePart + TechnicalPart + ContentPart)
        /\ KeywordPart <= 4000
        /\ StructurePart <= 30
        /\ TechnicalPart <= 20
        /\ ContentPart <= 10
        /\ frame.ats_score = 10000 =>
               /\ KeywordPart = 4000
               /\ StructurePart = 30
               /\ TechnicalPart = 20
               /\ ContentPart = 10

\* the score 100: a match above 40%, every structure flag, more than ten
\* matched technical skills, an action verb and 200 words
C24_Witness ==
    /\ frame.called
    /\ frame.pc = "ai_analysis"
    /\ frame.ats_score = 10000
    /\ frame.locals.keyword_comparison.match_percentage = 4001
    /\ Len(frame.locals.keyword_comparison.matched_technical) > 10
    /\ ats_words = 200

\* a score below 100 with the keyword part and the technical part under
\* their caps
C24_WitnessBelow ==
    /\ frame.called
    /\ frame.pc = "ai_analysis"
    /\ frame.locals.keyword_comparison.match_percentage = 3999
    /\ Len(frame.locals.keyword_comparison.matched_technical) = 9
    /\ frame.ats_score = 3999 + 100 * (30 + 18 + 5)

\* ------------------------------------------------------------------------
\* PDFProcessor: text extraction from an uploaded file
\* ------------------------------------------------------------------------

\* the position of the last '.' of a name, 0 when it has none
last_dot(name) ==
    LET dots == {i \in 1..Len(name) : name[i] = "."}
    IN  IF dots = {} THEN 0 ELSE CHOOSE i \in dots : \A j \in dots : j <= i

\* mutant: the extension compared as it is written
file_extension_as_written(name) == SubSeq(name, last_dot(name) + 1, Len(name))

\* uploaded_file.name.split('.')[-1].lower()
file_extension(name) == str_lower(SubSeq(name, last_dot(name) + 1, Len(name)))

\* str.strip()
str_strip(t) ==
    LET inked == {i \in 1..Len(t) : ~IsSpace(t[i])}
    IN  IF inked = {} THEN <<>>
        ELSE SubSeq(t, CHOOSE i \in inked : \A j \in inked : i <= j,
                       CHOOSE i \in inked : \A j \in inked : j <= i)

\* text = ""; for each page or paragraph: text += its text + "\n";
\* return text.strip()
stripped_text(parts) == str_strip(Flatten(Tuple([k \in 1..Len(parts) |-> parts[k] \o <<"\n">>])))

\* _extract_from_pdf and _extract_from_docx: `parse` is what the library
\* (PyPDF2, python-docx) does with the bytes of the file, the texts of the
\* pages or paragraphs or an exception; kind is "PDF" or "DOCX"
_extract_from(kind, uploaded_file) ==
    IF uploaded_file.parse.raised
    THEN [raised |-> TRUE, type |-> "Exception",
          message |-> <<"E","r","r","o","r"," ","e","x","t","r","a","c","t","i","n","g"," ",
                        "t","e","x","t"," ","f","r","o","m"," ">> \o kind \o <<":"," ">>
                      \o uploaded_file.parse.message,
          text |-> <<>>]
    ELSE [raised |-> FALSE, type |-> "", message |-> <<>>,
          text |-> stripped_text(uploaded_file.parse.parts)]

\* PDFProcessor.extract_text: the text, or the exception raised
extract_text(uploaded_file) ==
    LET extension == file_extension(uploaded_file.name)
    IN  IF extension = <<"p","d","f">> THEN _extract_from(<<"P","D","F">>, uploaded_file)
        ELSE IF extension = <<"d","o","c","x">> THEN _extract_from(<<"D","O","C","X">>, uploaded_file)
        ELSE [raised |-> TRUE, type |-> "ValueError",
              message |-> <<"U","n","s","u","p","p","o","r","t","e","d"," ","f","i","l","e"," ",
                            "f","o","r","m","a","t",":"," ">> \o extension,
              text |-> <<>>]

\* ------------------------------------------------------------------------
\* Specification SpecSession: one browser session on the pages CV Analysis,
\* Analytics Dashboard and Settings
\* ------------------------------------------------------------------------

\* st.session_state after main() has initialised it; completed_suggestions
\* is a key only once a suggestion has been marked
InitialSession ==
    [cv_text |-> <<>>, job_description |-> <<>>, analysis_results |-> NotCalled,
     chat_history |-> <<>>, completed_suggestions |-> NotCalled]

FileNames ==
    {<<"c","v",".","p","d","f">>,
     <<"C","V",".","P","D","F">>,
     <<"c","v",".","d","o","c","x">>,
     <<"c","v",".","D","o","c","x">>,
     <<"n","o","t","e","s",".","t","x","t">>,
     <<"c","v",".","p","d","f",".","e","x","e">>,
     <<"c","v">>}

\* what the parsing library does with the bytes of a file: the texts of its
\* pages or paragraphs, or an exception
ParseOutcomes ==
    {[raised |-> FALSE, message |-> <<>>, parts |-> <<<<" ">> \o Scenario1CV>>],
     [raised |-> FALSE, message |-> <<>>,
      parts |-> <<<<"I","n","c","r","e","a","s","e","d"," ","r","e","v","e","n","u","e"," ","b","y"," ","2","5","%">>,
                  <<"a","n","d"," ","m","a","n","a","g","e","d"," ","a"," ","t","e","a","m"," ","o","f"," ","1","0","."," ">>>>],
     [raised |-> FALSE, message |-> <<>>, parts |-> <<>>],
     [raised |-> TRUE, message |-> <<"E","O","F"," ","m","a","r","k","e","r"," ","n","o","t"," ","f","o","u","n","d">>,
      parts |-> <<>>]}

UploadedFiles == {[name |-> n, parse |-> o] : n \in FileNames, o \in ParseOutcomes}

\* the job descriptions typed into the text area; the empty one is the
\* cleared text area
SecondJob == <<"D","o","c","k","e","r"," ","a","n","d"," ","S","Q","L">>

JobTexts == {<<>>, Scenario1Job, SecondJob}

\* the CV texts a session can hold
SessionCVs == {extract_text(f).text : f \in UploadedFiles} \ {<<>>}

\* textstat and the Ollama server of the session
SessionFlesch == [raised |-> FALSE, value |-> 60]

SessionServer == CHOOSE server \in OllamaServers : ~server.connected

\* cv_analyzer.analyze_cv(cv_text, job_description) for the texts of the
\* session
SessionAnalyses ==
    {[cv_text |-> cv, job_description |-> jd,
      results |-> analyze_cv(cv, jd, 1, SessionFlesch, SessionServer).results] :
        cv \in SessionCVs, jd \in JobTexts \ {<<>>}}

InitSession ==
    /\ session_state = InitialSession
    /\ page = NotCalled
    /\ score_grades = NotCalled
    /\ cv_history = NotCalled
    /\ current_cv_score = NotCalled
    /\ previous_cv_score = NotCalled
    /\ update_calls = NotCalled
    /\ previous = NotCalled
    /\ hash_seed = 1
    /\ flesch_of_cv = SessionFlesch
    /\ ollama_server = SessionServer
    /\ input_cv_text = NotCalled
    /\ input_job_description = NotCalled
    /\ float_tie = NotCalled
    /\ cv_keywords = NotCalled
    /\ job_keywords = NotCalled
    /\ keyword_comparison = NotCalled
    /\ analysis_results = NotCalled
    /\ breakdown = NotCalled
    /\ grade_scores = NotCalled
    /\ grades = NotCalled
    /\ frame = NotCalled
    /\ filtered_tokens = NotCalled
    /\ ChatNotRun

session_unchanged ==
    UNCHANGED <<compare_vars, hash_seed, input_cv_text, input_job_description, flesch_of_cv,
                float_tie, ollama_server, analysis_results, breakdown, grade_vars, frame,
                filtered_tokens, chat_vars, current_cv_score, previous_cv_score, update_calls,
                score_grades>>

\* show_cv_analysis_page with a file in the uploader: the text is extracted
\* and stored, or the error is shown; the results of the session are
\* displayed below
UploadFile ==
    /\ \E uploaded_file \in UploadedFiles :
           \E extracted \in {extract_text(uploaded_file)} :
               /\ session_state' = IF extracted.raised THEN session_state
                                   ELSE [session_state EXCEPT !.cv_text = extracted.text]
               /\ page' = [called |-> TRUE, handler |-> "upload", uploaded_file |-> uploaded_file,
                           extracted |-> extracted, error |-> extracted.raised,
                           displayed |-> session_state.analysis_results]
    /\ UNCHANGED <<cv_history, previous>>
    /\ session_unchanged

\* show_cv_analysis_page with a text in the job description area
EditJobDescription ==
    /\ \E job_description \in JobTexts :
           session_state' = IF job_description # <<>>
                            THEN [session_state EXCEPT !.job_description = job_description]
                            ELSE session_state
    /\ page' = [called |-> TRUE, handler |-> "job_description", error |-> FALSE,
                displayed |-> session_state.analysis_results]
    /\ UNCHANGED <<cv_history, previous>>
    /\ session_unchanged

\* the button 'Analyze CV', shown when the session has a CV text and a job
\* description: the results are stored, or the analysis raises and the
\* error is shown
ClickAnalyze ==
    /\ session_state.cv_text # <<>>
    /\ session_state.job_description # <<>>
    /\ \E raises \in BOOLEAN, run \in SessionAnalyses :
           /\ run.cv_text = session_state.cv_text
           /\ run.job_description = session_state.job_description
           /\ session_state' = IF raises THEN session_state
                               ELSE [session_state EXCEPT !.analysis_results = run.results]
           /\ previous' = IF ~raises /\ session_state.analysis_results.called
                          THEN [called |-> TRUE, hash_seed |-> hash_seed,
                                analysis_results |-> session_state.analysis_results]
                          ELSE previous
           /\ page' = [called |-> TRUE, handler |-> "analyze", error |-> raises,
                       displayed |-> session_state'.analysis_results]
    /\ UNCHANGED cv_history
    /\ session_unchanged

\* AnalyticsDashboard._display_progress_tracking: what it shows for the
\* history
_display_progress_tracking(history) == IF Len(history.entries) > 1 THEN "trend" ELSE "notice"

\* show_analytics_page: a warning without results, else the dashboard with
\* its progress tracking
ShowAnalytics ==
    /\ IF ~session_state.analysis_results.called
       THEN /\ page' = [called |-> TRUE, handler |-> "analytics", warning |-> TRUE]
            /\ UNCHANGED cv_history
       ELSE /\ cv_history' = IF cv_history.called THEN cv_history
                             ELSE [called |-> TRUE, entries |-> <<>>]
            /\ page' = [called |-> TRUE, handler |-> "analytics", warning |-> FALSE,
                        progress |-> _display_progress_tracking(cv_history')]
    /\ UNCHANGED <<session_state, previous>>
    /\ session_unchanged

\* the button 'Clear Session' deletes every key; main() initialises the
\* session again on the rerun
ClearSession ==
    /\ session_state' = InitialSession
    /\ cv_history' = NotCalled
    /\ previous' = NotCalled
    /\ page' = [called |-> TRUE, handler |-> "settings"]
    /\ session_unchanged

NextSession == UploadFile \/ EditJobDescription \/ ClickAnalyze \/ ShowAnalytics \/ ClearSession

SpecSession == InitSession /\ [][NextSession]_vars

\* ------------------------------------------------------------------------
\* Claims on PDFProcessor.extract_text (under SpecSession)
\* ------------------------------------------------------------------------

\* the name ends, in any case of the letters, with the extension ext: the
\* text after its last '.' is ext
has_extension(name, ext) ==
    \E k \in 0..Len(name) :
        /\ k > 0 => name[k] = "."
        /\ \A i \in (k + 1)..Len(name) : name[i] # "."
        /\ k = 0 => \A i \in 1..Len(name) : name[i] # "."
        /\ str_lower(SubSeq(name, k + 1, Len(name))) = ext

is_supported(name) == has_extension(name, <<"p","d","f">>) \/ has_extension(name, <<"d","o","c","x">>)

\* the message ends with the original message, after a text of its own
carries(message, original) ==
    /\ Len(message) > Len(original)
    /\ SubSeq(message, Len(message) - Len(original) + 1, Len(message)) = original

\* C23: extract_text raises, for an extension other than pdf and docx
\* (compared case-insensitively), an error of a type of its own and never
\* returns text; every failure of the PDF or DOCX parsing is raised as a
\* generic extraction error whose message carries the original message;
\* otherwise the text is returned.
C23_ExtractionErrors ==
    (page.called /\ page.handler = "upload") =>
        LET uploaded_file == page.uploaded_file
            extracted == page.extracted
        IN  /\ ~is_supported(uploaded_file.name) =>
                   /\ extracted.raised
                   /\ extracted.type = "ValueError"
                   /\ extracted.text = <<>>
            /\ (is_supported(uploaded_file.name) /\ uploaded_file.parse.raised) =>
                   /\ extracted.raised
                   /\ extracted.type = "Exception"
                   /\ carries(extracted.message, uploaded_file.parse.message)
            /\ (is_supported(uploaded_file.name) /\ ~uploaded_file.parse.raised) =>
                   ~extracted.raised

\* the parsing of CV.PDF failed with 'EOF marker not found'
C23_Witness ==
    /\ page.called
    /\ page.handler = "upload"
    /\ page.uploaded_file.name = <<"C","V",".","P","D","F">>
    /\ page.extracted.raised
    /\ page.extracted.type = "Exception"
    /\ page.extracted.message = <<"E","r","r","o","r"," ","e","x","t","r","a","c","t","i","n","g"," ","t","e","x","t"," ","f","r","o","m"," ","P","D","F",":"," ","E","O","F"," ","m","a","r","k","e","r"," ","n","o","t"," ","f","o","u","n","d">>

\* cv.pdf.exe was refused without a look at its bytes, which parse
C23_WitnessUnsupported ==
    /\ page.called
    /\ page.handler = "upload"
    /\ page.uploaded_file.name = <<"c","v",".","p","d","f",".","e","x","e">>
    /\ ~page.uploaded_file.parse.raised
    /\ page.extracted.raised
    /\ page.extracted.type = "ValueError"
    /\ page.extracted.message = <<"U","n","s","u","p","p","o","r","t","e","d"," ","f","i","l","e"," ","f","o","r","m","a","t",":"," ","e","x","e">>

\* ------------------------------------------------------------------------
\* Claims on the progress tracking of a session (under SpecSession)
\* ------------------------------------------------------------------------

\* two analyses have completed in the session: the results of the second
\* replaced those of the first
TwoAnalysesCompleted == session_state.analysis_results.called /\ previous.called

\* the dashboard is on the page, with its progress tracking
ProgressTrackingShown == page.called /\ page.handler = "analytics" /\ ~page.warning

\* C21: each completed analysis records its score in cv_history, so once
\* two analyses have completed in the session the progress tracking has
\* more than one history entry and shows the trend, not the notice to
\* analyze the CV multiple times.
C21_Original ==
    (TwoAnalysesCompleted /\ ProgressTrackingShown) =>
        /\ Len(cv_history.entries) > 1
        /\ page.progress = "trend"

\* what the code does: no page calls update_history, the history of a
\* session has no entry and the progress tracking shows the notice
C21_HistoryStaysEmpty ==
    /\ cv_history.called => cv_history.entries = <<>>
    /\ ProgressTrackingShown => page.progress = "notice"
    /\ current_cv_score = NotCalled
    /\ update_calls = NotCalled

\* after two completed analyses the dashboard shows the notice
C21_Witness ==
    /\ TwoAnalysesCompleted
    /\ session_state.analysis_results # previous.analysis_results
    /\ ProgressTrackingShown
    /\ cv_history.entries = <<>>
    /\ page.progress = "notice"

\* ------------------------------------------------------------------------
\* Claims on the results of a session (under SpecSession)
\* ------------------------------------------------------------------------

\* results are the results of analyzing the texts the session holds now
OfCurrentTexts(results) ==
    \E run \in SessionAnalyses :
        /\ run.cv_text = session_state.cv_text
        /\ run.job_description = session_state.job_description
        /\ run.results = results

\* the page CV Analysis is shown and displays results
ResultsDisplayed ==
    /\ page.called
    /\ page.handler \in {"upload", "job_description", "analyze"}
    /\ page.displayed.called

\* C30: whenever the session's analysis_results is set, it is the result of
\* analyzing the session's current cv_text and job_description, and the
\* results displayed never belong to an earlier CV or job description.
C30_Original ==
    /\ session_state.analysis_results.called => OfCurrentTexts(session_state.analysis_results)
    /\ ResultsDisplayed => OfCurrentTexts(page.displayed)

\* C30, the part on failures: an upload whose extraction fails and an
\* analysis that fails leave cv_text and analysis_results as they were
C30_FailuresChangeNothing ==
    [][(page'.called /\ page'.handler \in {"upload", "analyze"} /\ page'.error) =>
           /\ session_state'.cv_text = session_state.cv_text
           /\ session_state'.analysis_results = session_state.analysis_results]_vars

\* what the code does: the results are those of the texts the session held
\* at the last analysis that completed
C30_OfSomeAnalysis ==
    /\ session_state.analysis_results.called =>
           \E run \in SessionAnalyses : run.results = session_state.analysis_results
    /\ (page.called /\ page.handler = "analyze" /\ ~page.error) =>
           OfCurrentTexts(session_state.analysis_results)
    /\ ResultsDisplayed => page.displayed = session_state.analysis_results

\* a second CV has been uploaded and the page displays the results of the
\* first
C30_Witness ==
    /\ page.called
    /\ page.handler = "upload"
    /\ ~page.error
    /\ session_state.cv_text # Scenario1CV
    /\ session_state.cv_text = page.extracted.text
    /\ page.displayed.called
    /\ \E run \in SessionAnalyses :
           /\ run.cv_text = Scenario1CV
           /\ run.results = page.displayed
    /\ ~OfCurrentTexts(page.displayed)

\* an analysis failed with results of an earlier one in the session
C30_WitnessFailure ==
    /\ page.called
    /\ page.handler = "analyze"
    /\ page.error
    /\ session_state.analysis_results.called

\* ------------------------------------------------------------------------
\* Specification SpecRoadmap: ImprovementSuggestions.display_suggestions on
\* the results of a session, with 'Mark Done' clicks and new analyses
\* ------------------------------------------------------------------------

MaxDone == 8

\* st.session_state.get('completed_suggestions', 0)
completed_of(session) ==
    IF session.completed_suggestions.called THEN session.completed_suggestions.value ELSE 0

\* _display_improvement_roadmap: the progress it shows, completed of total,
\* when there is a suggestion
_display_improvement_roadmap(suggestions, session) ==
    [shown |-> Len(suggestions) > 0,
     completed |-> completed_of(session),
     total_suggestions |-> Len(suggestions)]

\* _mark_suggestion_complete: the counter is created at 0 and incremented
_mark_suggestion_complete(session) ==
    [session EXCEPT !.completed_suggestions = [called |-> TRUE, value |-> completed_of(session) + 1]]

InitRoadmap ==
    /\ \E run \in SessionAnalyses :
           session_state = [InitialSession EXCEPT !.cv_text = run.cv_text,
                                                  !.job_description = run.job_description,
                                                  !.analysis_results = run.results]
    /\ page = NotCalled
    /\ score_grades = NotCalled
    /\ HistoryNotRun
    /\ previous = NotCalled
    /\ hash_seed = 1
    /\ flesch_of_cv = SessionFlesch
    /\ ollama_server = SessionServer
    /\ input_cv_text = NotCalled
    /\ input_job_description = NotCalled
    /\ float_tie = NotCalled
    /\ cv_keywords = NotCalled
    /\ job_keywords = NotCalled
    /\ keyword_comparison = NotCalled
    /\ analysis_results = NotCalled
    /\ breakdown = NotCalled
    /\ grade_scores = NotCalled
    /\ grades = NotCalled
    /\ frame = NotCalled
    /\ filtered_tokens = NotCalled
    /\ ChatNotRun

roadmap_unchanged ==
    UNCHANGED <<compare_vars, hash_seed, pipeline_vars, analysis_results, breakdown, grade_vars,
                frame, filtered_tokens, chat_vars, history_vars, score_grades>>

\* display_suggestions with a click on 'Mark Done' of the card of the k-th
\* suggestion; the roadmap below the cards shows the progress
MarkDone ==
    /\ completed_of(session_state) < MaxDone
    /\ \E k \in DOMAIN session_state.analysis_results.suggestions :
           /\ session_state' = _mark_suggestion_complete(session_state)
           /\ page' = [called |-> TRUE, handler |-> "mark_done", marked |-> k,
                       roadmap |-> _display_improvement_roadmap(
                                       session_state.analysis_results.suggestions, session_state')]
    /\ roadmap_unchanged

\* display_suggestions without a click
ShowSuggestions ==
    /\ page' = [called |-> TRUE, handler |-> "suggestions", marked |-> 0,
                roadmap |-> _display_improvement_roadmap(
                                session_state.analysis_results.suggestions, session_state)]
    /\ UNCHANGED session_state
    /\ roadmap_unchanged

\* the CV or the job description is replaced and analyzed: the session gets
\* new results
AnalyzeAgain ==
    /\ \E run \in SessionAnalyses :
           /\ run.results # session_state.analysis_results
           /\ session_state' = [session_state EXCEPT !.cv_text = run.cv_text,
                                                     !.job_description = run.job_description,
                                                     !.analysis_results = run.results]
    /\ page' = [called |-> TRUE, handler |-> "analyze", marked |-> 0,
                roadmap |-> [shown |-> FALSE, completed |-> 0, total_suggestions |-> 0]]
    /\ roadmap_unchanged

NextRoadmap == MarkDone \/ ShowSuggestions \/ AnalyzeAgain

SpecRoadmap == InitRoadmap /\ [][NextRoadmap]_vars

\* C28: after any sequence of 'Mark Done' clicks the counter
\* completed_suggestions never exceeds the number of suggestions of the
\* current analysis, and the progress completed / total of the roadmap stays
\* in [0,1].
C28_Original ==
    /\ completed_of(session_state) <= Len(session_state.analysis_results.suggestions)
    /\ (page.called /\ page.roadmap.shown) =>
           /\ 0 <= page.roadmap.completed
           /\ page.roadmap.completed <= page.roadmap.total_suggestions

\* what the code does: the counter counts the clicks of the session and the
\* roadmap divides it by the number of suggestions of the results in hand
C28_CountsClicks ==
    [][/\ completed_of(session_state') \in {completed_of(session_state),
                                            completed_of(session_state) + 1}
       /\ (page'.called /\ page'.roadmap.shown) =>
              /\ page'.roadmap.completed = completed_of(session_state')
              /\ page'.roadmap.total_suggestions = Len(session_state'.analysis_results.suggestions)]_vars

\* the same card clicked until the roadmap shows one more completed than
\* there are suggestions
C28_Witness ==
    /\ page.called
    /\ page.handler = "mark_done"
    /\ page.marked = 1
    /\ page.roadmap.shown
    /\ page.roadmap.completed = page.roadmap.total_suggestions + 1

\* ------------------------------------------------------------------------
\* Specification SpecChatHistory: the chat page, the chat interface and the
\* AI suggestions of one session, with the Ollama server coming and going
\* ------------------------------------------------------------------------

MaxExchanges == 2

\* the entries of the dict suggestions of _get_fallback_ai_suggestion for
\* the two types asked for
fallback_ai_suggestions ==
    [overall |->
        <<"\n"," "," "," "," "," "," "," "," "," "," "," "," "," "," "," "," ","*","*","P","r","i","o",
        "r","i","t","y"," ","A","c","t","i","o","n"," ","P","l","a","n",":","*","*","\n"," "," "," ",
        " "," "," "," "," "," "," "," "," "," "," "," "," ","1","."," ","*","*","K","e","y","w","o","r",
        "d","s"," ","F","i","r","s","t","*","*",":"," ","A","d","d"," ","5","-","7"," ","m","i","s","s",
        "i","n","g"," ","j","o","b","-","r","e","l","e","v","a","n","t"," ","k","e","y","w","o","r","d",
        "s"," ","n","a","t","u","r","a","l","l","y","\n"," "," "," "," "," "," "," "," "," "," "," ",
        " "," "," "," "," ","2","."," ","*","*","Q","u","a","n","t","i","f","y"," ","A","c","h","i","e",
        "v","e","m","e","n","t","s","*","*",":"," ","A","d","d"," ","n","u","m","b","e","r","s"," ","t",
        "o"," ","a","t"," ","l","e","a","s","t"," ","3"," ","b","u","l","l","e","t"," ","p","o","i","n",
        "t","s"," "," ","\n"," "," "," "," "," "," "," "," "," "," "," "," "," "," "," "," ","3",".",
        " ","*","*","P","r","o","f","e","s","s","i","o","n","a","l"," ","S","u","m","m","a","r","y","*",
        "*",":"," ","W","r","i","t","e"," ","a"," ","c","o","m","p","e","l","l","i","n","g"," ","2","-",
        "3"," ","s","e","n","t","e","n","c","e"," ","s","u","m","m","a","r","y","\n"," "," "," "," ",
        " "," "," "," "," "," "," "," "," "," "," "," ","4","."," ","*","*","S","k","i","l","l","s"," ",
        "S","e","c","t","i","o","n","*","*",":"," ","R","e","o","r","g","a","n","i","z","e"," ","s","k",
        "i","l","l","s"," ","t","o"," ","m","a","t","c","h"," ","j","o","b"," ","r","e","q","u","i","r",
        "e","m","e","n","t","s","\n"," "," "," "," "," "," "," "," "," "," "," "," "," "," "," "," ",
        "5","."," ","*","*","F","o","r","m","a","t"," ","R","e","v","i","e","w","*","*",":"," ","E","n",
        "s","u","r","e"," ","A","T","S","-","f","r","i","e","n","d","l","y"," ","f","o","r","m","a","t",
        "t","i","n","g"," ","t","h","r","o","u","g","h","o","u","t","\n"," "," "," "," "," "," "," ",
        " "," "," "," "," "," "," "," "," ","\n"," "," "," "," "," "," "," "," "," "," "," "," "," ",
        " "," "," ","F","o","c","u","s"," ","o","n"," ","h","i","g","h","-","i","m","p","a","c","t"," ",
        "c","h","a","n","g","e","s"," ","t","h","a","t"," ","d","i","r","e","c","t","l","y"," ","a","d",
        "d","r","e","s","s"," ","t","h","e"," ","j","o","b"," ","r","e","q","u","i","r","e","m","e","n",
        "t","s",".","\n"," "," "," "," "," "," "," "," "," "," "," "," ">>,
     keywords |->
        <<"\n"," "," "," "," "," "," "," "," "," "," "," "," "," "," "," "," ","*","*","K","e","y","w",
        "o","r","d"," ","I","n","t","e","g","r","a","t","i","o","n"," ","S","t","r","a","t","e","g","y",
        ":","*","*","\n"," "," "," "," "," "," "," "," "," "," "," "," "," "," "," "," ","-"," ","R",
        "e","s","e","a","r","c","h",":"," ","I","d","e","n","t","i","f","y"," ","1","0","-","1","5"," ",
        "k","e","y"," ","t","e","r","m","s"," ","f","r","o","m"," ","j","o","b"," ","p","o","s","t","i",
        "n","g","\n"," "," "," "," "," "," "," "," "," "," "," "," "," "," "," "," ","-"," ","N","a",
        "t","u","r","a","l"," ","I","n","t","e","g","r","a","t","i","o","n",":"," ","W","o","r","k"," ",
        "k","e","y","w","o","r","d","s"," ","i","n","t","o"," ","e","x","i","s","t","i","n","g"," ","b",
        "u","l","l","e","t"," ","p","o","i","n","t","s","\n"," "," "," "," "," "," "," "," "," "," ",
        " "," "," "," "," "," ","-"," ","S","k","i","l","l","s"," ","S","e","c","t","i","o","n",":"," ",
        "A","d","d"," ","t","e","c","h","n","i","c","a","l"," ","k","e","y","w","o","r","d","s"," ","t",
        "o"," ","s","k","i","l","l","s"," ","l","i","s","t","\n"," "," "," "," "," "," "," "," "," ",
        " "," "," "," "," "," "," ","-"," ","C","o","n","t","e","x","t",":"," ","U","s","e"," ","k","e",
        "y","w","o","r","d","s"," ","w","i","t","h","i","n"," ","a","c","h","i","e","v","e","m","e","n",
        "t"," ","d","e","s","c","r","i","p","t","i","o","n","s","\n"," "," "," "," "," "," "," "," ",
        " "," "," "," "," "," "," "," ","-"," ","A","v","o","i","d",":"," ","K","e","y","w","o","r","d",
        " ","s","t","u","f","f","i","n","g"," ","o","r"," ","u","n","n","a","t","u","r","a","l"," ","p",
        "l","a","c","e","m","e","n","t","\n"," "," "," "," "," "," "," "," "," "," "," "," ">>]

overall_type == <<"O","v","e","r","a","l","l"," ","C","V"," ","i","m","p","r","o","v","e","m","e","n","t"," ","s","t","r","a","t","e","g","y">>

keyword_type == <<"K","e","y","w","o","r","d"," ","o","p","t","i","m","i","z","a","t","i","o","n">>

\* _get_fallback_ai_suggestion: suggestions.get(suggestion_type, the overall
\* strategy)
_get_fallback_ai_suggestion(suggestion_type) ==
    IF suggestion_type = keyword_type THEN fallback_ai_suggestions.keywords
    ELSE fallback_ai_suggestions.overall

\* the types chosen in the select box: two with a fallback of their own and
\* one without
SuggestionTypes == {overall_type, keyword_type, <<"S","k","i","l","l","s"," ","s","e","c","t","i","o","n"," ","i","m","p","r","o","v","e","m","e","n","t">>}

\* what is typed into the chat input
ChatPrompts == {<<"W","h","a","t"," ","i","s"," ","m","y"," ","s","c","o","r","e","?">>}

\* the message of an exception raised inside the try of a handler
RaisedMessage == <<"C","o","n","n","e","c","t","i","o","n"," ","r","e","s","e","t"," ","b","y"," ","p","e","e","r">>

user_message(content) == [role |-> "user", content |-> content]

assistant_message(content) == [role |-> "assistant", content |-> content]

InitChatHistory ==
    /\ session_state = [InitialSession EXCEPT !.cv_text = Scenario1CV]
    /\ page = NotCalled
    /\ score_grades = NotCalled
    /\ HistoryNotRun
    /\ ChatNotRun
    /\ ollama_server \in OllamaServers
    /\ previous = NotCalled
    /\ hash_seed = 1
    /\ flesch_of_cv = NotCalled
    /\ input_cv_text = NotCalled
    /\ input_job_description = NotCalled
    /\ float_tie = NotCalled
    /\ cv_keywords = NotCalled
    /\ job_keywords = NotCalled
    /\ keyword_comparison = NotCalled
    /\ analysis_results = NotCalled
    /\ breakdown = NotCalled
    /\ grade_scores = NotCalled
    /\ grades = NotCalled
    /\ frame = NotCalled
    /\ filtered_tokens = NotCalled

chat_history_unchanged ==
    UNCHANGED <<compare_vars, hash_seed, pipeline_vars, analysis_results, breakdown, grade_vars,
                frame, filtered_tokens, chat_vars, history_vars, score_grades>>

\* there is room for one more exchange
RoomForExchange == Len(session_state.chat_history) < 2 * MaxExchanges

\* show_chat_page with a prompt in the chat input: the user message is
\* appended, then the response, or the error text when the call raises
ChatPageInput ==
    /\ session_state.cv_text # <<>>
    /\ RoomForExchange
    /\ \E prompt \in ChatPrompts, raises \in BOOLEAN :
           LET with_user == Append(session_state.chat_history, user_message(prompt))
               response == get_response(prompt, ollama_server)
               error_msg == <<"S","o","r","r","y",","," ","I"," ","e","n","c","o","u","n","t","e",
                              "r","e","d"," ","a","n"," ","e","r","r","o","r",":"," ">>
                            \o RaisedMessage
           IN  /\ session_state' =
                      [session_state EXCEPT !.chat_history =
                          Append(with_user,
                                 assistant_message(IF raises THEN error_msg ELSE response))]
               /\ page' = [called |-> TRUE, handler |-> "chat_page", error |-> raises]
    /\ chat_history_unchanged

\* ChatInterface._handle_chat_input: _add_user_message, then
\* _generate_ai_response appends the response, or the error message when
\* the call raises
ChatInterfaceInput ==
    /\ RoomForExchange
    /\ \E prompt \in ChatPrompts, raises \in BOOLEAN :
           LET with_user == Append(session_state.chat_history, user_message(prompt))
               response == get_response(prompt, ollama_server)
               error_message == <<"I"," ","a","p","o","l","o","g","i","z","e",","," ","b","u","t",
                                  " ","I"," ","e","n","c","o","u","n","t","e","r","e","d"," ","a",
                                  "n"," ","e","r","r","o","r",":"," ">> \o RaisedMessage
           IN  /\ session_state' =
                      [session_state EXCEPT !.chat_history =
                          Append(with_user,
                                 assistant_message(IF raises THEN error_message ELSE response))]
               /\ page' = [called |-> TRUE, handler |-> "chat_interface", error |-> raises]
    /\ chat_history_unchanged

\* mutant: the request is appended before the response is asked for
AskDianelle_request_first ==
    /\ RoomForExchange
    /\ \E suggestion_type \in SuggestionTypes, raises \in BOOLEAN :
           LET request == user_message(<<"A","I"," ","s","u","g","g","e","s","t","i","o","n"," ",
                                         "r","e","q","u","e","s","t",":"," ">> \o suggestion_type)
               response == IF ollama_server.connected THEN generate_response(ollama_server.reply)
                           ELSE _get_fallback_ai_suggestion(suggestion_type)
           IN  /\ session_state' =
                      IF raises
                      THEN [session_state EXCEPT !.chat_history = Append(@, request)]
                      ELSE [session_state EXCEPT !.chat_history =
                               Append(Append(@, request), assistant_message(response))]
               /\ page' = [called |-> TRUE, handler |-> "ai_suggestion", error |-> raises]
    /\ chat_history_unchanged

\* the button 'Ask Dianelle': _generate_ai_suggestion appends the request and
\* the response once it has the response, and only shows the error when the
\* call raises
AskDianelle ==
    /\ RoomForExchange
    /\ \E suggestion_type \in SuggestionTypes, raises \in BOOLEAN :
           LET request == user_message(<<"A","I"," ","s","u","g","g","e","s","t","i","o","n"," ",
                                         "r","e","q","u","e","s","t",":"," ">> \o suggestion_type)
               response == IF ollama_server.connected THEN generate_response(ollama_server.reply)
                           ELSE _get_fallback_ai_suggestion(suggestion_type)
           IN  /\ session_state' =
                      IF raises THEN session_state
                      ELSE [session_state EXCEPT !.chat_history =
                               Append(Append(@, request), assistant_message(response))]
               /\ page' = [called |-> TRUE, handler |-> "ai_suggestion", error |-> raises]
    /\ chat_history_unchanged

\* the Ollama server goes down, comes up or starts to fail between two
\* requests
OllamaChangesBetween ==
    /\ ollama_server' \in OllamaServers \ {ollama_server}
    /\ UNCHANGED <<session_state, page, score_grades, compare_vars, hash_seed, input_cv_text,
                   input_job_description, flesch_of_cv, float_tie, previous, analysis_results,
                   breakdown, grade_vars, frame, filtered_tokens, chat_vars, history_vars>>

NextChatHistory == ChatPageInput \/ ChatInterfaceInput \/ AskDianelle \/ OllamaChangesBetween

SpecChatHistory == InitChatHistory /\ [][NextChatHistory]_vars

\* C29: after any sequence of chat inputs and AI-suggestion requests,
\* whatever the language model does (answers, is disconnected, raises),
\* chat_history has even length and alternates user, assistant, user,
\* assistant: every user message is followed by exactly one assistant
\* message, and a failed request leaves no user message without a reply.
C29_Alternates ==
    LET chat_history == session_state.chat_history
    IN  /\ Len(chat_history) % 2 = 0
        /\ \A i \in DOMAIN chat_history :
               chat_history[i].role = IF i % 2 = 1 THEN "user" ELSE "assistant"

\* C29, step by step: a request adds one user message followed by one
\* assistant message, or nothing
C29_ExchangeAtOnce ==
    [][\/ session_state'.chat_history = session_state.chat_history
       \/ /\ Len(session_state'.chat_history) = Len(session_state.chat_history) + 2
          /\ SubSeq(session_state'.chat_history, 1, Len(session_state.chat_history))
                 = session_state.chat_history]_vars

\* a chat input that raised, answered with the error text, then an
\* AI-suggestion request answered by the fallback
C29_Witness ==
    /\ Len(session_state.chat_history) = 4
    /\ SubSeq(session_state.chat_history[2].content, 1, 5) = <<"S","o","r","r","y">>
    /\ session_state.chat_history[4].content = fallback_ai_suggestions.keywords
    /\ page.handler = "ai_suggestion"
    /\ ~page.error

\* an AI-suggestion request that raised after an answered chat input: the
\* history holds the one exchange
C29_WitnessRaised ==
    /\ Len(session_state.chat_history) = 2
    /\ page.called
    /\ page.handler = "ai_suggestion"
    /\ page.error
    /\ ollama_server.connected

====
